---- MODULE Spec2Model ----
(***************************************************************************)
(* Model of the Colored Abstract Simplicial Complex library (casc):       *)
(* the B-tree index tracker of unused vertex keys (index_tracker.h), the  *)
(* Hasse-diagram store with insert / remove (SimplicialComplex.h), the    *)
(* traversals and neighbourhoods (CASCTraversals.h, CASCFunctions.h),     *)
(* the orientation (Orientable.h) and the decimation (decimate.h).        *)
(***************************************************************************)
EXTENDS Integers, Sequences, FiniteSets, TLC

\* ------------------------------------------------------------------------
\* Bounds of the model
\* ------------------------------------------------------------------------
\* std::numeric_limits<T>::max(), scaled down: the tracker starts as [0, MAX)
MAX == 5
\* BTreeNode::d, the template parameter _d of index_tracker (default 16)
d == 1
\* keys 0 .. MaxKey-1 are the ones handed to insert<n>()
MaxKey == 4
\* payload values 0 .. MaxData handed to insert<n>(s, data)
MaxData == 0

\* the range [0, TrackerMax) of the tracker when it is driven directly
TrackerMax == 13

\* keys 0 .. MaxDataKey-1 are the ones used when payloads are stored
MaxDataKey == 3

\* keys 0 .. MaxDecKey-1 are the ones used when decimate is among the calls
MaxDecKey == 3
\* the range [0, DecMax) of the tracker when decimate is among the calls
DecMax == 4
\* 0 .. MaxStray are the values a read past the end of an array may yield
MaxStray == 1

\* BTreeNode::N
N == 2 * d + 1

\* ------------------------------------------------------------------------
\* index_tracker.h : intervals and B-tree nodes
\* ------------------------------------------------------------------------
\* Interval<T>(a, b): the half open range [a, b)
Interval(a, b) == <<a, b>>
\* Interval<T>(a): the range [a, a+1)
IntervalOf(a) == <<a, a + 1>>
lower(A) == A[1]
upper(A) == A[2]

\* the null B-tree pointer
NullPtr == [null |-> TRUE]
\* BTreeNode: data[0..k), next[0..k] (a leaf has next[0] == nullptr)
BTreeNode(dat, nxt) == [data |-> dat, next |-> nxt]
\* head->k
K(nd) == Len(nd.data)
\* head->next[0] == nullptr
IsLeaf(nd) == nd.next = <<>>

\* sequence helpers for the array shifts of the code (positions are 0-based)
InsAt(s, i, e) == SubSeq(s, 1, i) \o <<e>> \o SubSeq(s, i + 1, Len(s))
DelAt(s, i) == SubSeq(s, 1, i) \o SubSeq(s, i + 2, Len(s))
SetAt(s, i, e) == [s EXCEPT ![i + 1] = e]
Last(s) == s[Len(s)]
Front(s) == SubSeq(s, 1, Len(s) - 1)

\* rebalance(head, i), the branch curr->k == N: split the child in two
RebalanceSplit(head, i) ==
  LET curr == head.next[i + 1]
      left == BTreeNode(SubSeq(curr.data, 1, d),
                        IF IsLeaf(curr) THEN <<>> ELSE SubSeq(curr.next, 1, d + 1))
      right == BTreeNode(SubSeq(curr.data, d + 2, N),
                         IF IsLeaf(curr) THEN <<>> ELSE SubSeq(curr.next, d + 2, N + 1))
      up == curr.data[d + 1]
  IN BTreeNode(InsAt(head.data, i, up),
               InsAt(SetAt(head.next, i, left), i + 1, right))

\* rebalance(head, i), rotate right: borrow from the left sibling
RebalanceRotateRight(head, i) ==
  LET left == head.next[i]
      right == head.next[i + 1]
      right2 == BTreeNode(<<head.data[i]>> \o right.data,
                          IF IsLeaf(left) THEN right.next
                          ELSE <<Last(left.next)>> \o right.next)
      left2 == BTreeNode(Front(left.data),
                         IF IsLeaf(left) THEN left.next ELSE Front(left.next))
  IN BTreeNode(SetAt(head.data, i - 1, Last(left.data)),
               SetAt(SetAt(head.next, i - 1, left2), i, right2))

\* rebalance(head, i), rotate left: borrow from the right sibling
RebalanceRotateLeft(head, i) ==
  LET left == head.next[i + 1]
      right == head.next[i + 2]
      left2 == BTreeNode(Append(left.data, head.data[i + 1]),
                         IF IsLeaf(left) THEN left.next
                         ELSE Append(left.next, right.next[1]))
      right2 == BTreeNode(Tail(right.data),
                          IF IsLeaf(right) THEN right.next ELSE Tail(right.next))
  IN BTreeNode(SetAt(head.data, i, right.data[1]),
               SetAt(SetAt(head.next, i, left2), i + 1, right2))

\* a merge that drops the separator and the last child of the left node
RebalanceMerge_DropSeparator(head, l) ==
  LET left == head.next[l + 1]
      right == head.next[l + 2]
      merged == BTreeNode(left.data \o right.data,
                          IF IsLeaf(left) THEN left.next
                          ELSE Front(left.next) \o right.next)
  IN BTreeNode(DelAt(head.data, l),
               DelAt(SetAt(head.next, l, merged), l + 1))

\* rebalance(head, i), merge next[l] and next[l+1] around the separator data[l]
RebalanceMerge(head, l) ==
  LET left == head.next[l + 1]
      right == head.next[l + 2]
      merged == BTreeNode(left.data \o <<head.data[l + 1]>> \o right.data,
                          IF IsLeaf(left) THEN left.next
                          ELSE left.next \o right.next)
  IN BTreeNode(DelAt(head.data, l),
               DelAt(SetAt(head.next, l, merged), l + 1))

\* rebalance(head, i)
rebalance(head, i) ==
  LET curr == head.next[i + 1] IN
  IF K(curr) = N THEN RebalanceSplit(head, i)
  ELSE IF K(curr) < d THEN
    IF i > 0 /\ K(head.next[i]) > d THEN RebalanceRotateRight(head, i)
    ELSE IF i < K(head) /\ K(head.next[i + 2]) > d THEN RebalanceRotateLeft(head, i)
    ELSE IF i < K(head) THEN RebalanceMerge(head, i)
    ELSE RebalanceMerge(head, i - 1)
  ELSE head

\* get_replacement(head, key): take the last interval of the subtree; <<head, key>>
RECURSIVE get_replacement(_)
get_replacement(head) ==
  IF IsLeaf(head) THEN <<BTreeNode(Front(head.data), <<>>), Last(head.data)>>
  ELSE LET r == get_replacement(Last(head.next))
       IN <<rebalance(BTreeNode(head.data, SetAt(head.next, K(head), r[1])), K(head)),
            r[2]>>

\* fill_left that never merges
fill_left_NoMerge(head, x) == <<head, x>>

\* fill_left(head, x): absorb the last interval of the subtree if it touches x
RECURSIVE fill_left(_, _)
fill_left(head, x) ==
  IF IsLeaf(head) THEN
    LET left == Last(head.data) IN
    IF upper(left) = lower(x)
      THEN <<BTreeNode(Front(head.data), <<>>), Interval(lower(left), upper(x))>>
      ELSE <<head, x>>
  ELSE LET r == fill_left(Last(head.next), x)
       IN <<rebalance(BTreeNode(head.data, SetAt(head.next, K(head), r[1])), K(head)),
            r[2]>>

\* fill_right(head, x): absorb the first interval of the subtree if it touches x
RECURSIVE fill_right(_, _)
fill_right(head, x) ==
  IF IsLeaf(head) THEN
    LET right == head.data[1] IN
    IF lower(right) = upper(x)
      THEN <<BTreeNode(Tail(head.data), <<>>), Interval(lower(x), upper(right))>>
      ELSE <<head, x>>
  ELSE LET r == fill_right(head.next[1], x)
       IN <<rebalance(BTreeNode(head.data, SetAt(head.next, 0, r[1])), 0), r[2]>>

\* insert_left(head, x): append x to the last leaf of the subtree
RECURSIVE insert_left(_, _)
insert_left(head, x) ==
  IF IsLeaf(head) THEN BTreeNode(Append(head.data, x), <<>>)
  ELSE rebalance(BTreeNode(head.data,
                           SetAt(head.next, K(head), insert_left(Last(head.next), x))),
                 K(head))

\* insert_scalar_H(head, data), the loop from position i on
RECURSIVE insert_scalar_H(_, _, _)
insert_scalar_H(head, x, i) ==
  IF IsLeaf(head) THEN
    IF i >= K(head) THEN BTreeNode(Append(head.data, IntervalOf(x)), <<>>)
    ELSE LET A == head.data[i + 1] IN
      IF x + 1 < lower(A) THEN BTreeNode(InsAt(head.data, i, IntervalOf(x)), <<>>)
      ELSE IF x + 1 = lower(A)
        THEN BTreeNode(SetAt(head.data, i, Interval(x, upper(A))), <<>>)
      ELSE IF lower(A) <= x /\ x < upper(A) THEN head
      ELSE IF upper(A) = x THEN
        IF i + 1 < K(head) /\ x + 1 = lower(head.data[i + 2])
          THEN BTreeNode(DelAt(SetAt(head.data, i,
                                     Interval(lower(A), upper(head.data[i + 2]))),
                               i + 1), <<>>)
          ELSE BTreeNode(SetAt(head.data, i, Interval(lower(A), x + 1)), <<>>)
      ELSE insert_scalar_H(head, x, i + 1)
  ELSE
    IF i >= K(head)
      THEN rebalance(BTreeNode(head.data,
                               SetAt(head.next, i, insert_scalar_H(head.next[i + 1], x, 0))),
                     i)
    ELSE LET A == head.data[i + 1] IN
      IF x + 1 < lower(A)
        THEN rebalance(BTreeNode(head.data,
                                 SetAt(head.next, i, insert_scalar_H(head.next[i + 1], x, 0))),
                       i)
      ELSE IF x + 1 = lower(A) THEN
        LET r == fill_left(head.next[i + 1], Interval(x, upper(A)))
        IN rebalance(BTreeNode(SetAt(head.data, i, r[2]), SetAt(head.next, i, r[1])), i)
      ELSE IF lower(A) <= x /\ x < upper(A) THEN head
      ELSE IF upper(A) = x THEN
        LET r == fill_right(head.next[i + 2], Interval(lower(A), x + 1))
        IN rebalance(BTreeNode(SetAt(head.data, i, r[2]), SetAt(head.next, i + 1, r[1])),
                     i + 1)
      ELSE insert_scalar_H(head, x, i + 1)

\* the root fix-up shared by insert_scalar and remove_scalar
RootFix(head) ==
  IF K(head) = N THEN rebalance(BTreeNode(<<>>, <<head>>), 0)
  ELSE IF K(head) = 0 THEN (IF IsLeaf(head) THEN NullPtr ELSE head.next[1])
  ELSE head

\* insert_scalar(head, data): the new head
insert_scalar(head, x) ==
  IF head = NullPtr THEN BTreeNode(<<IntervalOf(x)>>, <<>>)
  ELSE RootFix(insert_scalar_H(head, x, 0))

\* remove_scalar_H(head, x), the loop from position i on
RECURSIVE remove_scalar_H(_, _, _)
remove_scalar_H(head, x, i) ==
  IF IsLeaf(head) THEN
    IF i >= K(head) THEN head
    ELSE LET A == head.data[i + 1] IN
      IF x < lower(A) THEN head
      ELSE IF x = lower(A) THEN
        IF x + 1 = upper(A) THEN BTreeNode(DelAt(head.data, i), <<>>)
        ELSE BTreeNode(SetAt(head.data, i, Interval(x + 1, upper(A))), <<>>)
      ELSE IF x + 1 < upper(A)
        THEN BTreeNode(InsAt(SetAt(head.data, i, Interval(lower(A), x)),
                             i + 1, Interval(x + 1, upper(A))), <<>>)
      ELSE IF x + 1 = upper(A)
        THEN BTreeNode(SetAt(head.data, i, Interval(lower(A), x)), <<>>)
      ELSE remove_scalar_H(head, x, i + 1)
  ELSE
    IF i >= K(head)
      THEN rebalance(BTreeNode(head.data,
                               SetAt(head.next, i, remove_scalar_H(head.next[i + 1], x, 0))),
                     i)
    ELSE LET A == head.data[i + 1] IN
      IF x < lower(A)
        THEN rebalance(BTreeNode(head.data,
                                 SetAt(head.next, i, remove_scalar_H(head.next[i + 1], x, 0))),
                       i)
      ELSE IF x = lower(A) THEN
        IF x + 1 = upper(A) THEN
          LET r == get_replacement(head.next[i + 1])
          IN rebalance(BTreeNode(SetAt(head.data, i, r[2]), SetAt(head.next, i, r[1])), i)
        ELSE BTreeNode(SetAt(head.data, i, Interval(x + 1, upper(A))), head.next)
      ELSE IF x + 1 < upper(A) THEN
        rebalance(BTreeNode(SetAt(head.data, i, Interval(x + 1, upper(A))),
                            SetAt(head.next, i,
                                  insert_left(head.next[i + 1], Interval(lower(A), x)))),
                  i)
      ELSE IF x + 1 = upper(A)
        THEN BTreeNode(SetAt(head.data, i, Interval(lower(A), x)), head.next)
      ELSE remove_scalar_H(head, x, i + 1)

\* remove_scalar(head, data): the new head
remove_scalar(head, x) ==
  IF head = NullPtr THEN NullPtr ELSE RootFix(remove_scalar_H(head, x, 0))

\* pop_scalar(head): the key handed out (head is not null)
pop_key(head) == lower(head.data[1])

\* the intervals of the tree in in-order (operator<< of the tree)
RECURSIVE InOrder(_)
RECURSIVE InOrderFrom(_, _)
InOrderFrom(head, i) ==
  IF i > K(head) THEN <<>>
  ELSE InOrder(head.next[i + 1])
         \o (IF i < K(head) THEN <<head.data[i + 1]>> ELSE <<>>)
         \o InOrderFrom(head, i + 1)
InOrder(head) ==
  IF head = NullPtr THEN <<>>
  ELSE IF IsLeaf(head) THEN head.data
  ELSE InOrderFrom(head, 0)

\* the set of keys the tracker holds (Interval::has over all stored intervals)
FreeSet(head) ==
  LET s == InOrder(head)
  IN UNION {lower(s[j]) .. upper(s[j]) - 1 : j \in 1 .. Len(s)}

\* ------------------------------------------------------------------------
\* SimplicialComplex.h : the Hasse diagram
\* ------------------------------------------------------------------------
\* simplicial_complex::topLevel of SurfaceMeshType (root, vertex, edge, face)
topLevel == 3
\* a null Node pointer
NULL == -1
\* the payload of a node created without data (asc_NodeData::_data is not
\* initialised by the asc_Node constructor)
Indet == -1

Keys == 0 .. MaxKey - 1
AllKeys == 0 .. MAX - 1
DataVals == 0 .. MaxData

\* asc_Node<k>: _down (asc_arraymap), _up (asc_vectormap), _data
Node(lvl, dn, u, dat) == [level |-> lvl, down |-> dn, up |-> u, data |-> dat]

\* the empty asc_arraymap / asc_vectormap
EmptyMap == <<>>
\* operator[] assignment m[key] = val of asc_arraymap / asc_vectormap
MapPut(m, key, val) == [a \in DOMAIN m \cup {key} |-> IF a = key THEN val ELSE m[a]]
\* asc_arraymap::erase / asc_vectormap::erase
MapErase(m, ks) == [a \in DOMAIN m \ ks |-> m[a]]
\* the mapped pointers of a map
MapValues(m) == {m[a] : a \in DOMAIN m}

\* the least element of a non-empty set of integers
Min(S) == CHOOSE x \in S : \A y \in S : x <= y

\* the keys of a set in ascending order (the maps iterate in key order)
RECURSIVE SortedSeq(_)
SortedSeq(S) ==
  IF S = {} THEN <<>>
  ELSE LET m == CHOOSE x \in S : \A y \in S : x <= y
       IN <<m>> \o SortedSeq(S \ {m})

\* the key set of a tuple
Range(s) == {s[i] : i \in 1 .. Len(s)}

\* get_name(id): the keys of _down in iteration order
get_name(cx, id) == SortedSeq(DOMAIN cx[id].down)

\* the address operator new hands out for a node: the addresses are laid out
\* by the key set the node will be linked under, a further node of the same
\* key set gets the next free address of that residue
RECURSIVE Pow2(_)
Pow2(n) == IF n = 0 THEN 1 ELSE 2 * Pow2(n - 1)
RECURSIVE Mask(_)
Mask(S) == IF S = {} THEN 0
           ELSE LET v == CHOOSE x \in S : TRUE IN Pow2(v) + Mask(S \ {v})
NewNode(cx, S) ==
  LET slots == 0 .. Cardinality(DOMAIN cx)
      j == CHOOSE i \in slots :
             /\ Mask(S) + Pow2(MAX) * i \notin DOMAIN cx
             /\ \A l \in 0 .. i - 1 : Mask(S) + Pow2(MAX) * l \in DOMAIN cx
  IN Mask(S) + Pow2(MAX) * j

\* create_node<level>(): a node with empty maps in the table of its level
create_node(cx, lvl, nn) ==
  [id \in DOMAIN cx \cup {nn} |->
     IF id \in DOMAIN cx THEN cx[id] ELSE Node(lvl, EmptyMap, EmptyMap, Indet)]

\* backfill(root, nn, value), the loop over root->_down from the keys in todo
RECURSIVE backfill(_, _, _, _, _)
backfill(cx, root, nn, value, todo) ==
  IF todo = {} THEN cx
  ELSE LET v == CHOOSE x \in todo : \A y \in todo : x <= y
           parent == cx[root].down[v]
           \* parent->_up[value] adds a null entry when the key is absent
           cx1 == IF value \in DOMAIN cx[parent].up THEN cx
                  ELSE [cx EXCEPT ![parent].up = MapPut(@, value, NULL)]
           child == cx1[parent].up[value]
           cx2 == [cx1 EXCEPT ![nn].down = MapPut(@, v, child)]
           cx3 == IF child = NULL THEN cx2
                  ELSE [cx2 EXCEPT ![child].up = MapPut(@, v, nn)]
       IN backfill(cx3, root, nn, value, todo \ {v})

\* insert_full / insert_for / insert_raw: each returns <<complex, node>>
RECURSIVE insert_full(_, _, _, _)
RECURSIVE insert_for(_, _, _, _, _)
RECURSIVE insert_raw(_, _, _, _)
\* insert_raw that links the new node to root only, without backfill
insert_raw_NoBackfill(cx, root, begin, n) ==
  LET v == begin[n + 1] IN
  IF v \in DOMAIN cx[root].up
    THEN insert_full(cx, cx[root].up[v], begin, n)
    ELSE LET nn == NewNode(cx, DOMAIN cx[root].down \cup {v})
             cx1 == create_node(cx, cx[root].level + 1, nn)
             cx2 == [cx1 EXCEPT ![nn].down = MapPut(@, v, root),
                                ![root].up = MapPut(@, v, nn)]
         IN insert_full(cx2, nn, begin, n)
insert_raw(cx, root, begin, n) ==
  LET v == begin[n + 1] IN
  IF v \in DOMAIN cx[root].up
    THEN insert_full(cx, cx[root].up[v], begin, n)
    ELSE LET nn == NewNode(cx, DOMAIN cx[root].down \cup {v})
             cx1 == create_node(cx, cx[root].level + 1, nn)
             cx2 == [cx1 EXCEPT ![nn].down = MapPut(@, v, root),
                                ![root].up = MapPut(@, v, nn)]
             cx3 == backfill(cx2, root, nn, v, DOMAIN cx2[root].down)
         IN insert_full(cx3, nn, begin, n)
\* insert_for<level, antistep, n> with i = n - antistep
insert_for(cx, root, begin, i, n) ==
  LET r == insert_raw(cx, root, begin, i)
  IN IF i = n - 1 THEN r ELSE insert_for(r[1], root, begin, i + 1, n)
\* insert_full that runs only the last step of the insert_for loop
insert_full_LastStepOnly(cx, root, begin, n) ==
  IF n = 0 THEN <<cx, root>> ELSE insert_for(cx, root, begin, n - 1, n)
insert_full(cx, root, begin, n) ==
  IF n = 0 THEN <<cx, root>> ELSE insert_for(cx, root, begin, 0, n)

\* get_recurse<level, n>::apply(s, root): the node or NULL
RECURSIVE get_recurse(_, _, _)
get_recurse(cx, root, s) ==
  IF s = <<>> THEN root
  ELSE IF root = NULL THEN NULL
  ELSE IF s[1] \in DOMAIN cx[root].up THEN get_recurse(cx, cx[root].up[s[1]], Tail(s))
  ELSE NULL

\* the key loop of insert that stops before the last key
RECURSIVE remove_keys_SkipLast(_, _)
remove_keys_SkipLast(ut, s) ==
  IF Len(s) <= 1 THEN ut
  ELSE remove_keys_SkipLast(remove_scalar(ut, s[1]), Tail(s))

\* unused_vertices.remove(*p) for every key of s
RECURSIVE remove_keys(_, _)
remove_keys(ut, s) ==
  IF s = <<>> THEN ut ELSE remove_keys(remove_scalar(ut, s[1]), Tail(s))

\* the Node<1> overload of remove_node without unused_vertices.insert
insert_keys_Never(ut, ks) == ut

\* remove_node(p): unlink p from its parents and children and delete it;
\* the Node<1> overload also returns the key to unused_vertices
RECURSIVE insert_keys(_, _)
insert_keys(ut, ks) ==
  IF ks = {} THEN ut
  ELSE LET v == CHOOSE x \in ks : \A y \in ks : x <= y
       IN insert_keys(insert_scalar(ut, v), ks \ {v})
\* remove_node that leaves the _up entries of the parents in place
remove_node_KeepParentLinks(st, p) ==
  LET cx == st.cx
      nd == cx[p]
      downGone(id) == {a \in DOMAIN nd.up : nd.up[a] = id}
  IN [cx |-> [id \in DOMAIN cx \ {p} |->
                [cx[id] EXCEPT !.down = MapErase(@, downGone(id))]],
      ut |-> IF nd.level = 1 THEN insert_keys(st.ut, DOMAIN nd.down) ELSE st.ut,
      count |-> st.count + 1]
remove_node(st, p) ==
  LET cx == st.cx
      nd == cx[p]
      upGone(id) == {a \in DOMAIN nd.down : nd.down[a] = id}
      downGone(id) == {a \in DOMAIN nd.up : nd.up[a] = id}
  IN [cx |-> [id \in DOMAIN cx \ {p} |->
                [cx[id] EXCEPT !.up = MapErase(@, upGone(id)),
                               !.down = MapErase(@, downGone(id))]],
      ut |-> IF nd.level = 1 THEN insert_keys(st.ut, DOMAIN nd.down) ELSE st.ut,
      count |-> st.count + 1]

\* remove_recurse<level>::apply: the loop over [begin, end) in pointer order,
\* collecting the coboundary in next, then the recursion on next
RECURSIVE remove_recurse(_, _, _, _)
remove_recurse(st, lvl, todo, next) ==
  IF todo = {} THEN
    IF lvl = topLevel \/ next = {} THEN st
    ELSE remove_recurse(st, lvl + 1, next, {})
  ELSE LET i == CHOOSE x \in todo : \A y \in todo : x <= y
           up == st.cx[i].up
       IN remove_recurse(remove_node(st, i), lvl, todo \ {i},
                         IF lvl = topLevel THEN next ELSE next \cup MapValues(up))

\* ------------------------------------------------------------------------
\* State
\* ------------------------------------------------------------------------
VARIABLES
  nodes,    \* the live nodes of the complex: address -> Node (levels, _root)
  head,     \* unused_vertices: the B-tree of the index tracker
  last,     \* the last call: its name, arguments and return value
  exited    \* TRUE once pop_scalar called exit(-1)

vars == <<nodes, head, last, exited>>

\* _root
root == 0

\* strictly ascending key tuples of length 1 .. topLevel
Names(S) == {SortedSeq(T) : T \in {T \in SUBSET S : Cardinality(T) \in 1 .. topLevel}}

\* a record of the last call: name, arguments, return value, the number of
\* nodes it created, and for a remove that directly follows insert(arg) the
\* number of nodes that insert had created (-1 otherwise)
Call(op, arg, dat, ret, created, after) ==
  [op |-> op, arg |-> arg, data |-> dat, ret |-> ret,
   created |-> created, after |-> after]

\* the names of the simplices of dimension >= 1 in the complex
NamesOf(cx) == {get_name(cx, id) : id \in DOMAIN cx \ {root}}

\* insert that creates the node at the end of the chain without looking it up
InsertOp_AlwaysCreate(cx, ut, s) ==
  LET r == insert_full(cx, root, s, Len(s))
      nn == NewNode(r[1], Range(s))
      twin == [id \in DOMAIN r[1] \cup {nn} |->
                 IF id = nn THEN r[1][r[2]] ELSE r[1][id]]
  IN [cx |-> twin, ut |-> remove_keys(ut, s), ret |-> nn]

\* insert<n>(s): unused_vertices.remove of every key, then insert_full
InsertOp(cx, ut, s) ==
  LET r == insert_full(cx, root, s, Len(s))
  IN [cx |-> r[1], ut |-> remove_keys(ut, s), ret |-> r[2]]

\* insert with data that also stores the data on the boundary of the node
InsertDataOp_AlsoFaces(cx, ut, s, dat) ==
  LET r == InsertOp(cx, ut, s)
      touched == {r.ret} \cup MapValues(r.cx[r.ret].down)
  IN [r EXCEPT !.cx = [id \in DOMAIN r.cx |->
                         IF id \in touched /\ id # root
                           THEN [r.cx[id] EXCEPT !.data = dat] ELSE r.cx[id]]]

\* insert<n>(s, data): as insert<n>(s), then rval->_data = data
InsertDataOp(cx, ut, s, dat) ==
  LET r == InsertOp(cx, ut, s)
  IN [r EXCEPT !.cx = [r.cx EXCEPT ![r.ret].data = dat]]

\* remove that stops after the first dimension above the simplex
RemoveOp_OneLevelUp(cx, ut, p) ==
  LET st0 == remove_node([cx |-> cx, ut |-> ut, count |-> 0], p)
  IN remove_recurse(st0, topLevel, MapValues(cx[p].up), {})

\* remove(SimplexID<k> s): remove_recurse<k, 0> on the one node, count = 0
RemoveOp(cx, ut, p) ==
  remove_recurse([cx |-> cx, ut |-> ut, count |-> 0], cx[p].level, {p}, {})

\* ------------------------------------------------------------------------
\* CASCTraversals.h and decimate.h
\* ------------------------------------------------------------------------
\* the nodes one step down / up from a set of nodes (get_simplex_down over
\* get_name, get_simplex_up over get_cover)
DownOf(cx, F) == UNION {MapValues(cx[n].down) : n \in F}
UpOf(cx, F) == UNION {MapValues(cx[n].up) : n \in F}

\* SimplexAggregator that collects the frontier and its coboundary, not beyond
BFS_up_Aggregator_OneLevel(cx, frontier, lvl, acc) ==
  acc \cup frontier \cup UpOf(cx, frontier \ acc)

\* visit_BFS_up with SimplexAggregator: a node not yet in acc is added and
\* expanded, a node already in acc is not expanded
RECURSIVE BFS_up_Aggregator(_, _, _, _)
BFS_up_Aggregator(cx, frontier, lvl, acc) ==
  IF lvl = topLevel THEN acc \cup frontier
  ELSE BFS_up_Aggregator(cx, UpOf(cx, frontier \ acc), lvl + 1, acc \cup frontier)

\* GetCompleteNeighborhood over the vertices of one frontier, one after the
\* other (the frontier is a NodeSet; the model walks it by address)
RECURSIVE AggregateEach(_, _, _)
AggregateEach(cx, todo, acc) ==
  IF todo = {} THEN acc
  ELSE CHOOSE res \in
         {AggregateEach(cx, todo \ {v}, next) :
            v \in {Min(todo)},
            next \in {BFS_up_Aggregator(cx, {Min(todo)}, 1, acc)}} : TRUE

\* visit_BFS_down with GetCompleteNeighborhood: walk down to the vertices of
\* s and collect the star of each
RECURSIVE GetCompleteNeighborhood(_, _, _)
GetCompleteNeighborhood(cx, frontier, lvl) ==
  IF lvl = 1 THEN AggregateEach(cx, frontier, {})
  ELSE GetCompleteNeighborhood(cx, DownOf(cx, frontier), lvl - 1)

\* visit_BFS_down with GrabVisitor: a node still in nbhd is moved to grab and
\* expanded, any other node is not
RECURSIVE GrabVisitor(_, _, _, _, _)
GrabVisitor(cx, frontier, lvl, nbhd, grab) ==
  CHOOSE res \in
    {IF lvl = 1 THEN grab \cup found
     ELSE GrabVisitor(cx, DownOf(cx, found), lvl - 1, nbhd \ found, grab \cup found) :
       found \in {frontier \cap nbhd}} : TRUE

\* the element read at 0-based position i of a std::array filled from name:
\* a position past the filled part holds whatever the memory holds (stray)
ArrayAt(name, i, stray) == IF i < Len(name) THEN name[i + 1] ELSE stray

\* the loop of InnerVisitor::visit that builds new_name: new_point first, then
\* the keys of old_name that do not match the next key of base_name; strayB
\* and strayO are what base_name and old_name yield when read past their end
RECURSIVE new_name(_, _, _, _, _, _, _, _)
new_name(name, j, k, old_name, base_name, NewLevel, strayB, strayO) ==
  IF Len(name) >= NewLevel THEN name
  ELSE IF ArrayAt(base_name, k, strayB) = ArrayAt(old_name, j, strayO)
    THEN new_name(name, j + 1, k + 1, old_name, base_name, NewLevel, strayB, strayO)
    ELSE new_name(Append(name, ArrayAt(old_name, j, strayO)), j + 1, k,
                  old_name, base_name, NewLevel, strayB, strayO)

\* InnerVisitor::visit(s) for base simplex t: when s is still in nbhd, grab s
\* and its faces and merge them into the set kept under the new name
InnerVisitor(cx, s, t, np, strayB, strayO, st) ==
  IF s \notin st.nbhd THEN st
  ELSE CHOOSE res \in
         {[nbhd |-> st.nbhd \ grab,
           map |-> MapPut(st.map, name,
                          IF name \in DOMAIN st.map THEN st.map[name] \cup grab
                          ELSE grab)] :
            name \in {new_name(<<np>>, 0, 0, get_name(cx, s), get_name(cx, t),
                               cx[s].level - cx[t].level + 1, strayB, strayO)},
            grab \in {GrabVisitor(cx, {s}, cx[s].level, st.nbhd, {})}} : TRUE

\* InnerVisitor over one frontier of visit_BFS_up, by address
RECURSIVE InnerEach(_, _, _, _, _, _, _)
InnerEach(cx, todo, t, np, strayB, strayO, st) ==
  IF todo = {} THEN st
  ELSE CHOOSE res \in
         {InnerEach(cx, todo \ {u}, t, np, strayB, strayO, next) :
            u \in {Min(todo)},
            next \in {InnerVisitor(cx, Min(todo), t, np, strayB, strayO, st)}} : TRUE

\* visit_BFS_up with InnerVisitor from t: every frontier is expanded
RECURSIVE BFS_up_Inner(_, _, _, _, _, _, _, _)
BFS_up_Inner(cx, frontier, lvl, t, np, strayB, strayO, st) ==
  CHOOSE res \in
    {IF lvl = topLevel THEN st1
     ELSE BFS_up_Inner(cx, UpOf(cx, frontier), lvl + 1, t, np, strayB, strayO, st1) :
       st1 \in {InnerEach(cx, frontier, t, np, strayB, strayO, st)}} : TRUE

\* MainVisitor over one frontier of visit_BFS_down, by address
RECURSIVE MainEach(_, _, _, _, _, _)
MainEach(cx, todo, np, strayB, strayO, st) ==
  IF todo = {} THEN st
  ELSE CHOOSE res \in
         {MainEach(cx, todo \ {t}, np, strayB, strayO, next) :
            t \in {Min(todo)},
            next \in {BFS_up_Inner(cx, {Min(todo)}, cx[Min(todo)].level, Min(todo),
                                   np, strayB, strayO, st)}} : TRUE

\* visit_BFS_down with MainVisitor from s: every face of s down to its
\* vertices starts an InnerVisitor traversal
RECURSIVE MainVisitor(_, _, _, _, _, _, _)
MainVisitor(cx, frontier, lvl, np, strayB, strayO, st) ==
  CHOOSE res \in
    {IF lvl = 1 THEN st1
     ELSE MainVisitor(cx, DownOf(cx, frontier), lvl - 1, np, strayB, strayO, st1) :
       st1 \in {MainEach(cx, frontier, np, strayB, strayO, st)}} : TRUE

\* operator< of std::array within one level of the SimplexMap
RECURSIVE LexLess(_, _)
LexLess(a, b) ==
  IF a = <<>> \/ b = <<>> THEN FALSE
  ELSE a[1] < b[1] \/ (a[1] = b[1] /\ LexLess(Tail(a), Tail(b)))
\* the order in which run_user_callback and perform_insertion meet the names
NameBefore(a, b) == Len(a) < Len(b) \/ (Len(a) = Len(b) /\ LexLess(a, b))

\* a removal that takes the doomed simplices of the lowest level first
RECURSIVE perform_removal_LowFirst(_, _)
perform_removal_LowFirst(st, doomed) ==
  IF doomed = {} THEN st
  ELSE CHOOSE res \in
         UNION {{perform_removal_LowFirst(next, doomed \ {p}) :
                   next \in {IF p \notin DOMAIN st.cx
                               THEN [st EXCEPT !.fault = TRUE]
                               ELSE CHOOSE x \in
                                      {[st EXCEPT !.cx = r.cx, !.ut = r.ut] :
                                         r \in {RemoveOp(st.cx, st.ut, p)}} : TRUE}} :
                 p \in {Min({h \in doomed : \A q \in doomed : st.lvl[h] <= st.lvl[q]})}}
         : TRUE

\* perform_removal: F.remove(curr) for the doomed simplices, top level first;
\* fault is set when a handle no longer names a live node
RECURSIVE perform_removal(_, _)
perform_removal(st, doomed) ==
  IF doomed = {} THEN st
  ELSE CHOOSE res \in
         UNION {{perform_removal(next, doomed \ {p}) :
                   next \in {IF p \notin DOMAIN st.cx
                               THEN [st EXCEPT !.fault = TRUE]
                               ELSE CHOOSE x \in
                                      {[st EXCEPT !.cx = r.cx, !.ut = r.ut] :
                                         r \in {RemoveOp(st.cx, st.ut, p)}} : TRUE}} :
                 p \in {Min({h \in doomed : \A q \in doomed : st.lvl[q] <= st.lvl[h]})}}
         : TRUE

\* run_user_callback and perform_insertion: F.insert(name, data) for every
\* name of the SimplexMap with the data the callback returned, low level first
RECURSIVE perform_insertion(_, _, _)
perform_insertion(st, names, clbk) ==
  IF names = {} THEN st
  ELSE CHOOSE res \in
         UNION {{perform_insertion([st EXCEPT !.cx = r.cx, !.ut = r.ut],
                                   names \ {name}, clbk) :
                   r \in {InsertDataOp(st.cx, st.ut, name, clbk)}} :
                 name \in {CHOOSE a \in names : \A b \in names \ {a} : NameBefore(a, b)}}
         : TRUE

\* decimate(F, s, clbk) with a free key at hand: add_vertex, the neighbourhood,
\* the SimplexMap, the removals and the insertions
DecimateOp(cx, ut, s, clbk, strayB, strayO) ==
  CHOOSE res \in
    UNION {UNION {UNION {UNION {UNION {
      {[cx |-> ins.cx, ut |-> ins.ut, np |-> np, nbhd |-> nbhd,
        map |-> m.map, left |-> m.nbhd, fault |-> ins.fault] :
         ins \in {perform_insertion(rm, DOMAIN m.map, clbk)}} :
         rm \in {perform_removal([cx |-> a.cx, ut |-> a.ut, fault |-> FALSE,
                                  lvl |-> [n \in nbhd |-> a.cx[n].level]], nbhd)}} :
         m \in {MainVisitor(a.cx, {s}, a.cx[s].level, np, strayB, strayO,
                            [nbhd |-> nbhd, map |-> EmptyMap])}} :
         nbhd \in {GetCompleteNeighborhood(a.cx, {s}, a.cx[s].level)}} :
         a \in {InsertOp(cx, remove_scalar(ut, np), <<np>>)}} :
         np \in {pop_key(ut)}}
    : TRUE

\* simplicial_complex() and index_tracker(): the root node and [0, MAX)
Init ==
  /\ nodes = (root :> Node(0, EmptyMap, EmptyMap, Indet))
  /\ head = BTreeNode(<<Interval(0, MAX)>>, <<>>)
  /\ last = Call("init", <<>>, Indet, 0, 0, -1)
  /\ exited = FALSE

\* insert<n>(s)
Insert(s) ==
  /\ ~exited
  /\ LET r == InsertOp(nodes, head, s)
     IN /\ nodes' = r.cx
        /\ head' = r.ut
        /\ last' = Call("insert", s, Indet, r.ret,
                        Cardinality(DOMAIN r.cx) - Cardinality(DOMAIN nodes), -1)
  /\ UNCHANGED exited

\* insert<n>(s, data)
InsertData(s, dat) ==
  /\ ~exited
  /\ LET r == InsertDataOp(nodes, head, s, dat)
     IN /\ nodes' = r.cx
        /\ head' = r.ut
        /\ last' = Call("insert", s, dat, r.ret,
                        Cardinality(DOMAIN r.cx) - Cardinality(DOMAIN nodes), -1)
  /\ UNCHANGED exited

\* add_vertex(): pop a key and insert<1> it; pop_scalar exits on a null head
AddVertex ==
  /\ ~exited
  /\ IF head = NullPtr
       THEN /\ exited' = TRUE
            /\ last' = Call("add_vertex", <<>>, Indet, -1, 0, -1)
            /\ UNCHANGED <<nodes, head>>
       ELSE LET v == pop_key(head)
                r == InsertOp(nodes, remove_scalar(head, v), <<v>>)
            IN /\ nodes' = r.cx
               /\ head' = r.ut
               /\ last' = Call("add_vertex", <<>>, Indet, v,
                               Cardinality(DOMAIN r.cx) - Cardinality(DOMAIN nodes), -1)
               /\ UNCHANGED exited

\* remove<k>(s) of a present simplex: by name the node is looked up with
\* get_recurse, by handle it is passed in; both run remove_recurse<k, 0> on it
Remove(s) ==
  /\ ~exited
  /\ get_recurse(nodes, root, s) # NULL
  /\ LET st == RemoveOp(nodes, head, get_recurse(nodes, root, s))
     IN /\ nodes' = st.cx
        /\ head' = st.ut
        /\ last' = Call("remove", s, Indet, st.count, 0,
                        IF last.op = "insert" /\ last.arg = s
                          THEN last.created ELSE -1)
  /\ UNCHANGED exited

\* decimate(F, s, clbk) of a present simplex s; clbk returns dat for every
\* name; strayB / strayO are the values base_name / old_name yield past their
\* end (equal values would keep the loop of InnerVisitor running off both)
Decimate(s, dat, strayB, strayO) ==
  /\ ~exited
  /\ get_recurse(nodes, root, s) # NULL
  /\ strayB # strayO
  /\ IF head = NullPtr
       THEN /\ exited' = TRUE
            /\ last' = Call("decimate", s, dat, -1, 0, -1)
            /\ UNCHANGED <<nodes, head>>
       ELSE \E r \in {DecimateOp(nodes, head, get_recurse(nodes, root, s),
                                dat, strayB, strayO)} :
               /\ nodes' = r.cx
               /\ head' = r.ut
               /\ last' = Call("decimate", s, dat, r.np,
                               Cardinality(DOMAIN r.map), Cardinality(r.nbhd))
               /\ exited' = r.fault

Next ==
  \/ \E s \in Names(Keys) : Insert(s)
  \/ AddVertex
  \/ \E s \in Names(Keys) : Remove(s)

Spec == Init /\ [][Next]_vars

\* ------------------------------------------------------------------------
\* Properties of the Hasse diagram
\* ------------------------------------------------------------------------
\* the live nodes of one dimension (std::get<k>(levels))
Level(cx, k) == {id \in DOMAIN cx : cx[id].level = k}
\* size<k>()
size(cx, k) == Cardinality(Level(cx, k))
\* the boundary / coboundary links of the complex without the payloads
Links(cx) == [id \in DOMAIN cx |-> <<cx[id].level, cx[id].down, cx[id].up>>]
\* a tuple is strictly ascending
Ascending(s) == \A i \in 1 .. Len(s) - 1 : s[i] < s[i + 1]

\* C1: every boundary link n.down[a] = p is matched by p.up[a] = n and every
\* coboundary link m.up[b] = c by c.down[b] = m; no link is null or dangling.
C1_LinksTwoSided ==
  \A n \in DOMAIN nodes :
    /\ \A a \in DOMAIN nodes[n].down :
         LET p == nodes[n].down[a]
         IN p \in DOMAIN nodes /\ a \in DOMAIN nodes[p].up /\ nodes[p].up[a] = n
    /\ \A b \in DOMAIN nodes[n].up :
         LET c == nodes[n].up[b]
         IN c \in DOMAIN nodes /\ b \in DOMAIN nodes[c].down /\ nodes[c].down[b] = n
\* a triangle with all its links is left after a remove that swept a star
C1_Witness ==
  /\ last.op = "remove" /\ last.ret >= 2
  /\ \E n \in Level(nodes, topLevel) :
       \A a \in DOMAIN nodes[n].down : nodes[nodes[n].down[a]].up[a] = n

\* C2: a node of dimension k >= 1 has exactly k boundary keys, its name is
\* strictly ascending, and the parent reached through key a is a live node of
\* dimension k - 1 whose name is the name without a.
C2_NamesAndFaces ==
  \A n \in DOMAIN nodes :
    LET nd == nodes[n] IN
    /\ Cardinality(DOMAIN nd.down) = nd.level
    /\ Len(get_name(nodes, n)) = nd.level
    /\ Ascending(get_name(nodes, n))
    /\ \A a \in DOMAIN nd.down :
         /\ nd.down[a] \in DOMAIN nodes
         /\ nodes[nd.down[a]].level = nd.level - 1
         /\ DOMAIN nodes[nd.down[a]].down = DOMAIN nd.down \ {a}
\* an insert built a triangle and its three edges at once
C2_Witness ==
  /\ last.op = "insert" /\ Len(last.arg) = topLevel /\ last.created >= 4
  /\ get_name(nodes, last.ret) = last.arg

\* no two live nodes carry the same name; size<k>() counts the names of length k
C3_NoDuplicateNames ==
  /\ \A m, n \in DOMAIN nodes :
       (nodes[m].level = nodes[n].level /\ DOMAIN nodes[m].down = DOMAIN nodes[n].down)
         => m = n
  /\ \A k \in 0 .. topLevel :
       size(nodes, k) = Cardinality({DOMAIN nodes[n].down : n \in Level(nodes, k)})
\* insert(s) of a present simplex changes no link and returns the node of s
C3_ReinsertIsNoOp ==
  \A s \in Names(AllKeys) :
    get_recurse(nodes, root, s) # NULL =>
      /\ Links(InsertOp(nodes, head, s).cx) = Links(nodes)
      /\ InsertOp(nodes, head, s).ret = get_recurse(nodes, root, s)
\* C3: no two live nodes carry the same name, so size<k>() counts the names
\* of length k, and insert(s) of a simplex that is present creates no node and
\* changes no link.
C3_InsertOnce == C3_NoDuplicateNames /\ C3_ReinsertIsNoOp
\* an insert of a present triangle has just returned, having created nothing
C3_Witness ==
  /\ last.op = "insert" /\ Len(last.arg) = topLevel /\ last.created = 0
  /\ size(nodes, topLevel) >= 2

\* the keys carried by the vertices of the complex
VertexKeys(cx) == UNION {DOMAIN cx[n].down : n \in Level(cx, 1)}
\* without decimate, on the range [0, MAX): a key is in the free set of the
\* tracker iff no vertex carries it
FreeIffNoVertex ==
  \A v \in AllKeys : (v \in FreeSet(head)) <=> (v \notin VertexKeys(nodes))

\* C5: after insert(s) every non-empty subset of s is a simplex, the lookup of
\* s yields the handle insert returned, that handle's name is s, and every
\* node the insert created has a name inside s.
C5_InsertClosure ==
  \A s \in Names(Keys) :
    LET r == InsertOp(nodes, head, s) IN
    /\ \A t \in Names(Range(s)) : get_recurse(r.cx, root, t) # NULL
    /\ get_recurse(r.cx, root, s) = r.ret
    /\ get_name(r.cx, r.ret) = s
    /\ \A n \in DOMAIN r.cx \ DOMAIN nodes : DOMAIN r.cx[n].down \subseteq Range(s)
    /\ DOMAIN nodes \subseteq DOMAIN r.cx
\* insert of a triangle returned, having created the triangle and some but
\* not all of its faces
C5_Witness ==
  /\ last.op = "insert" /\ Len(last.arg) = topLevel
  /\ last.created \in 2 .. 5
  /\ get_recurse(nodes, root, last.arg) = last.ret
  /\ size(nodes, topLevel) >= 2

\* the star of node p: p and every node whose name contains the name of p
Star(cx, p) == {n \in DOMAIN cx : DOMAIN cx[p].down \subseteq DOMAIN cx[n].down}

\* C6: remove of a present simplex deletes exactly its star, returns the size
\* of the star, and every other node keeps its payload, its boundary and the
\* coboundary links that do not lead into the star.
C6_RemoveStar ==
  \A p \in DOMAIN nodes \ {root} :
    LET st == RemoveOp(nodes, head, p)
        star == Star(nodes, p)
    IN /\ DOMAIN st.cx = DOMAIN nodes \ star
       /\ st.count = Cardinality(star)
       /\ \A n \in DOMAIN st.cx :
            /\ st.cx[n].level = nodes[n].level
            /\ st.cx[n].data = nodes[n].data
            /\ st.cx[n].down = nodes[n].down
            /\ st.cx[n].up =
                 MapErase(nodes[n].up, {b \in DOMAIN nodes[n].up : nodes[n].up[b] \in star})
\* an edge shared by two triangles was removed: 3 simplices went, the four
\* vertices and the other four edges stay
C6_Witness ==
  /\ last.op = "remove" /\ Len(last.arg) = 2 /\ last.ret = 3
  /\ size(nodes, 1) >= 4 /\ size(nodes, 2) >= 4 /\ size(nodes, 3) = 0

\* C7 as stated: insert(s); remove(s) restores the simplices and the free set.
C7_InsertRemoveRestores ==
  \A s \in Names(Keys) :
    LET a == InsertOp(nodes, head, s)
        b == RemoveOp(a.cx, a.ut, a.ret)
    IN NamesOf(b.cx) = NamesOf(nodes) /\ FreeSet(b.ut) = FreeSet(head)
\* C7 amended: insert(s); remove(s) restores the simplices and the free set
\* when s was absent and every proper non-empty face of s was present.
OnlyTopMissing(cx, s) ==
  /\ get_recurse(cx, root, s) = NULL
  /\ \A t \in Names(Range(s)) \ {s} : get_recurse(cx, root, t) # NULL
C7_InsertRemoveRestoresNewTop ==
  \A s \in Names(Keys) :
    OnlyTopMissing(nodes, s) =>
      LET a == InsertOp(nodes, head, s)
          b == RemoveOp(a.cx, a.ut, a.ret)
      IN /\ NamesOf(b.cx) = NamesOf(nodes)
         /\ FreeSet(b.ut) = FreeSet(head)
         /\ Links(b.cx) = Links(nodes)
\* remove(s) ran right after an insert(s) that had created s alone, with the
\* faces of s still there
C7_Witness ==
  /\ last.op = "remove" /\ last.after = 1 /\ last.ret = 1 /\ Len(last.arg) >= 2
  /\ OnlyTopMissing(nodes, last.arg)

\* ------------------------------------------------------------------------
\* The complex driven with decimate among the calls, on a small key set
\* ------------------------------------------------------------------------
DecKeys == 0 .. MaxDecKey - 1
StrayVals == 0 .. MaxStray

NextDecimate ==
  \/ \E s \in Names(DecKeys) : Insert(s)
  \/ AddVertex
  \/ \E s \in Names(DecKeys) : Remove(s)
  \/ \E s \in Names(DecKeys), dat \in DataVals, strayB, strayO \in StrayVals :
       Decimate(s, dat, strayB, strayO)

\* simplicial_complex() with the tracker scaled to [0, DecMax)
InitDecimate ==
  /\ nodes = (root :> Node(0, EmptyMap, EmptyMap, Indet))
  /\ head = BTreeNode(<<Interval(0, DecMax)>>, <<>>)
  /\ last = Call("init", <<>>, Indet, 0, 0, -1)
  /\ exited = FALSE

SpecDecimate == InitDecimate /\ [][NextDecimate]_vars

\* C4: in every state reached by insert, add_vertex, remove and decimate, a
\* key of the tracker's range is in the free set iff no vertex carries it.
C4_FreeIffNoVertex ==
  \A v \in 0 .. DecMax - 1 : (v \in FreeSet(head)) <=> (v \notin VertexKeys(nodes))
\* a decimate of an edge has removed the stars of its two vertices, whose keys
\* are free again, and has linked the new vertex to what was around them
C4_Witness ==
  /\ last.op = "decimate" /\ Len(last.arg) = 2 /\ ~exited
  /\ \A i \in 1 .. 2 : last.arg[i] \in FreeSet(head)
  /\ last.ret \in VertexKeys(nodes) /\ last.ret \notin FreeSet(head)
  /\ \E n \in Level(nodes, 2) : last.ret \in DOMAIN nodes[n].down

\* C12: a call of add_vertex or decimate made when the tracker holds no free
\* key comes back to its caller with the error (ret = -1 in the call record):
\* the program goes on, the complex and the tracker as they were.
C12_ExhaustedIsReturned ==
  (last.op \in {"add_vertex", "decimate"} /\ last.ret = -1 /\ head = NullPtr)
    => ~exited

\* ------------------------------------------------------------------------
\* Payloads: the complex driven with insert<n>(s, data) on a small key set
\* ------------------------------------------------------------------------
DataKeys == 0 .. MaxDataKey - 1

NextData ==
  \/ \E s \in Names(DataKeys) : Insert(s)
  \/ \E s \in Names(DataKeys), dat \in DataVals : InsertData(s, dat)
  \/ \E s \in Names(DataKeys) : Remove(s)

SpecData == Init /\ [][NextData]_vars

\* C8: insert(s, p) sets the payload of s to p and leaves the payload of every
\* other node that existed before unchanged; insert(s) leaves the payload of
\* every node that existed before unchanged.
C8_PayloadFrame ==
  \A s \in Names(DataKeys) :
    /\ \A dat \in DataVals :
         LET r == InsertDataOp(nodes, head, s, dat) IN
         /\ r.cx[r.ret].data = dat
         /\ get_name(r.cx, r.ret) = s
         /\ \A n \in DOMAIN nodes \ {r.ret} : r.cx[n].data = nodes[n].data
    /\ LET r == InsertOp(nodes, head, s)
       IN \A n \in DOMAIN nodes : r.cx[n].data = nodes[n].data
\* insert(s, p) overwrote the payload of an existing edge; one of its vertices
\* carries a payload of its own and the other still has none
C8_Witness ==
  /\ last.op = "insert" /\ last.data # Indet /\ last.created = 0
  /\ Len(last.arg) = 2
  /\ nodes[last.ret].data = last.data
  /\ \E a \in DOMAIN nodes[last.ret].down : nodes[nodes[last.ret].down[a]].data # Indet
  /\ \E a \in DOMAIN nodes[last.ret].down : nodes[nodes[last.ret].down[a]].data = Indet

\* ------------------------------------------------------------------------
\* The index tracker driven directly: insert(x), remove(x), pop()
\* ------------------------------------------------------------------------
\* index_tracker::insert(x)
TrackerInsert(x) ==
  /\ ~exited
  /\ head' = insert_scalar(head, x)
  /\ last' = Call("tracker_insert", <<x>>, Indet, 0, 0, -1)
  /\ UNCHANGED <<nodes, exited>>

\* index_tracker::remove(x)
TrackerRemove(x) ==
  /\ ~exited
  /\ head' = remove_scalar(head, x)
  /\ last' = Call("tracker_remove", <<x>>, Indet, 0, 0, -1)
  /\ UNCHANGED <<nodes, exited>>

\* index_tracker::pop(): pop_scalar removes head->data[0].lower() and returns
\* it, or calls exit(-1) when head is null
TrackerPop ==
  /\ ~exited
  /\ IF head = NullPtr
       THEN /\ exited' = TRUE
            /\ last' = Call("tracker_pop", <<>>, Indet, -1, 0, -1)
            /\ UNCHANGED <<nodes, head>>
       ELSE /\ head' = remove_scalar(head, pop_key(head))
            /\ last' = Call("tracker_pop", <<>>, Indet, pop_key(head), 0, -1)
            /\ UNCHANGED <<nodes, exited>>

NextTracker ==
  \/ \E x \in 0 .. TrackerMax - 1 : TrackerInsert(x)
  \/ \E x \in 0 .. TrackerMax - 1 : TrackerRemove(x)
  \/ TrackerPop

\* index_tracker(): the single interval [0, max)
InitTracker ==
  /\ nodes = (root :> Node(0, EmptyMap, EmptyMap, Indet))
  /\ head = BTreeNode(<<Interval(0, TrackerMax)>>, <<>>)
  /\ last = Call("init", <<>>, Indet, 0, 0, -1)
  /\ exited = FALSE

SpecTracker == InitTracker /\ [][NextTracker]_vars

\* the depth of a B-tree (0 for the null pointer, 1 for a leaf)
RECURSIVE Depth(_)
Depth(t) == IF t = NullPtr THEN 0
            ELSE IF IsLeaf(t) THEN 1
            ELSE 1 + Depth(t.next[1])

\* C9: pop() returns the minimum of the free set and removes exactly that
\* key, whatever the shape of the B-tree.
C9_PopReturnsMin ==
  head # NullPtr =>
    /\ pop_key(head) = Min(FreeSet(head))
    /\ FreeSet(remove_scalar(head, pop_key(head))) = FreeSet(head) \ {pop_key(head)}

\* C10: the in-order traversal yields non-empty intervals, each upper bound
\* strictly below the next lower bound.
C10_IntervalsMaximal ==
  LET s == InOrder(head) IN
  /\ \A j \in 1 .. Len(s) : lower(s[j]) < upper(s[j])
  /\ \A j \in 1 .. Len(s) - 1 : upper(s[j]) < lower(s[j + 1])
\* a tree of three levels holding at least seven intervals, reached by an insert
C10_Witness ==
  /\ last.op = "tracker_insert"
  /\ Depth(head) = 3
  /\ Len(InOrder(head)) >= 7

\* C11: the tracker refines a plain set of integers: in every reachable
\* state and for every key x, remove(x) yields the free set minus x and
\* insert(x) yields the free set plus x, whatever splits, rotations and merges
\* the B-tree goes through; so no other key changes, and remove of an excluded
\* key and insert of a free key leave the set as it is.
C11_TrackerRefinesSet ==
  \A x \in 0 .. TrackerMax - 1 :
    /\ FreeSet(remove_scalar(head, x)) = FreeSet(head) \ {x}
    /\ FreeSet(insert_scalar(head, x)) = FreeSet(head) \cup {x}
\* a tree of three levels reached by remove(x), the split of an interval
\* having grown the tree, where some insert joins two intervals and takes a
\* level off the tree
C11_Witness ==
  /\ last.op = "tracker_remove" /\ last.arg[1] \notin FreeSet(head)
  /\ Depth(head) = 3
  /\ \E x \in 0 .. TrackerMax - 1 :
       /\ x \notin FreeSet(head)
       /\ Len(InOrder(insert_scalar(head, x))) < Len(InOrder(head))
       /\ Depth(insert_scalar(head, x)) < Depth(head)

\* ------------------------------------------------------------------------
\* CASCFunctions.h : getStar, getClosure, getLink
\* ------------------------------------------------------------------------
\* the largest SimplexSet handed to the set forms of the functions
MaxSet == 2

\* SimplexAggregator that collects the frontier and its boundary, not beyond
BFS_down_Aggregator_OneLevel(cx, frontier, lvl, acc) ==
  acc \cup frontier \cup DownOf(cx, frontier \ acc)

\* visit_BFS_down with SimplexAggregator: a node not yet in acc is added and
\* expanded, a node already in acc is not expanded; level 1 is not expanded
RECURSIVE BFS_down_Aggregator(_, _, _, _)
BFS_down_Aggregator(cx, frontier, lvl, acc) ==
  IF lvl = 1 THEN acc \cup frontier
  ELSE BFS_down_Aggregator(cx, DownOf(cx, frontier \ acc), lvl - 1, acc \cup frontier)

\* StarHelper::apply<k>: visit_BFS_up from every simplex of S of dimension k,
\* all into the same dest (the level of the SimplexSet is walked by address)
RECURSIVE StarHelper(_, _, _, _)
StarHelper(cx, todo, lvl, dest) ==
  IF todo = {} THEN dest
  ELSE CHOOSE res \in
         {StarHelper(cx, todo \ {s}, lvl, next) :
            s \in {Min(todo)},
            next \in {BFS_up_Aggregator(cx, {Min(todo)}, lvl, dest)}} : TRUE

\* ClosureHelper::apply<k>: visit_BFS_down from every simplex of S of
\* dimension k, all into the same dest
RECURSIVE ClosureHelper(_, _, _, _)
ClosureHelper(cx, todo, lvl, dest) ==
  IF todo = {} THEN dest
  ELSE CHOOSE res \in
         {ClosureHelper(cx, todo \ {s}, lvl, next) :
            s \in {Min(todo)},
            next \in {BFS_down_Aggregator(cx, {Min(todo)}, lvl, dest)}} : TRUE

\* getStar(F, s, dest) with dest empty
getStar(cx, s) == BFS_up_Aggregator(cx, {s}, cx[s].level, {})

\* getStar(F, S, dest): StarHelper over RevIndex, the top dimension first
RECURSIVE getStarLevels(_, _, _, _)
getStarLevels(cx, S, lvl, dest) ==
  IF lvl < 1 THEN dest
  ELSE CHOOSE res \in
         {getStarLevels(cx, S, lvl - 1, next) :
            next \in {StarHelper(cx, S \cap Level(cx, lvl), lvl, dest)}} : TRUE
getStarSet(cx, S) == getStarLevels(cx, S, topLevel, {})

\* getClosure(F, s, dest) with dest empty
getClosure(cx, s) == BFS_down_Aggregator(cx, {s}, cx[s].level, {})

\* getClosure(F, S, dest): ClosureHelper over cLevelIndex, dimension 1 first
RECURSIVE getClosureLevels(_, _, _, _)
getClosureLevels(cx, S, lvl, dest) ==
  IF lvl > topLevel THEN dest
  ELSE CHOOSE res \in
         {getClosureLevels(cx, S, lvl + 1, next) :
            next \in {ClosureHelper(cx, S \cap Level(cx, lvl), lvl, dest)}} : TRUE
getClosureSet(cx, S) == getClosureLevels(cx, S, 1, {})

\* a link that takes away the star of s only, not the star of its closure
getLink_MinusStar(cx, s) ==
  getClosureSet(cx, getStar(cx, s)) \ getStar(cx, s)

\* getLink(F, s, dest) and getLink(F, S, dest): set_difference (DifferenceH)
\* of closure(star) and star(closure)
getLink(cx, s) ==
  getClosureSet(cx, getStar(cx, s)) \ getStarSet(cx, getClosure(cx, s))
getLinkSet(cx, S) ==
  getClosureSet(cx, getStarSet(cx, S)) \ getStarSet(cx, getClosureSet(cx, S))

\* the simplices of dimension >= 1 and the SimplexSets of at most MaxSet of them
Simplices(cx) == DOMAIN cx \ {root}
SimplexSets(cx) == {S \in SUBSET Simplices(cx) : Cardinality(S) <= MaxSet}
\* the non-empty faces of node p, p included (the names contained in its name)
Faces(cx, p) == {n \in Simplices(cx) : DOMAIN cx[n].down \subseteq DOMAIN cx[p].down}

\* C13: getStar of a simplex s is exactly the set of simplices whose name
\* contains the name of s, and getStar of a SimplexSet is exactly the union of
\* the stars of its members.
C13_StarExact ==
  /\ \A s \in Simplices(nodes) : getStar(nodes, s) = Star(nodes, s)
  /\ \A S \in SimplexSets(nodes) :
       getStarSet(nodes, S) = UNION {Star(nodes, s) : s \in S}
\* a triangle is in the complex: for S = {vertex, edge} of it the traversal
\* from the vertex finds the edge already collected and does not expand it
C13_Witness ==
  /\ last.op = "insert" /\ Len(last.arg) = topLevel
  /\ \E v \in Level(nodes, 1), e \in Level(nodes, 2) :
       /\ e \in Star(nodes, v)
       /\ Star(nodes, e) \ {e} # {}
       /\ getStarSet(nodes, {v, e}) = Star(nodes, v)
       /\ Cardinality(Star(nodes, v)) > Cardinality(Star(nodes, e)) + 1

\* C14: getClosure of a simplex or of a SimplexSet of simplices of dimension
\* >= 1 is exactly the set of the non-empty faces of its members, the members
\* included; the root is never part of it.
C14_ClosureExact ==
  /\ \A s \in Simplices(nodes) :
       getClosure(nodes, s) = Faces(nodes, s) /\ root \notin getClosure(nodes, s)
  /\ \A S \in SimplexSets(nodes) :
       /\ getClosureSet(nodes, S) = UNION {Faces(nodes, s) : s \in S}
       /\ root \notin getClosureSet(nodes, S)
\* a triangle is in the complex: for S = {edge, triangle} of it the traversal
\* from the triangle finds the edge already collected and does not expand it
C14_Witness ==
  /\ last.op = "insert" /\ Len(last.arg) = topLevel
  /\ \E e \in Level(nodes, 2), f \in Level(nodes, topLevel) :
       /\ e \in Faces(nodes, f)
       /\ getClosureSet(nodes, {e, f}) = Faces(nodes, f)
       /\ Cardinality(Faces(nodes, f)) = 7
       /\ Cardinality(getClosure(nodes, e)) = 3

\* the cofaces and the non-empty faces of the members of a set of simplices
StarOf(cx, S) == UNION {Star(cx, s) : s \in S}
ClosureOf(cx, S) == UNION {Faces(cx, s) : s \in S}

\* C15: getLink of a simplex or of a SimplexSet is exactly
\* closure(star(S)) \ star(closure(S)) with star the coface set and closure the
\* non-empty-face set; for a vertex v it is the set of the faces of the
\* cofaces of v that do not contain v.
C15_LinkExact ==
  /\ \A s \in Simplices(nodes) :
       getLink(nodes, s) =
         ClosureOf(nodes, Star(nodes, s)) \ StarOf(nodes, Faces(nodes, s))
  /\ \A S \in SimplexSets(nodes) :
       getLinkSet(nodes, S) =
         ClosureOf(nodes, StarOf(nodes, S)) \ StarOf(nodes, ClosureOf(nodes, S))
  /\ \A v \in Level(nodes, 1) :
       getLink(nodes, v) =
         {n \in ClosureOf(nodes, Star(nodes, v)) :
            ~(DOMAIN nodes[v].down \subseteq DOMAIN nodes[n].down)}
\* a complex with a triangle: the link of one of its edges is the opposite
\* vertex alone, the link of one of its vertices at least the opposite edge
\* and its two vertices
C15_Witness ==
  /\ last.op = "insert" /\ Len(last.arg) = topLevel
  /\ \E e \in Level(nodes, 2), v \in Level(nodes, 1) :
       /\ getLink(nodes, e) \subseteq Level(nodes, 1)
       /\ Cardinality(getLink(nodes, e)) = 1
       /\ Cardinality(getLink(nodes, v)) >= 3
       /\ getLink(nodes, v) \cap Level(nodes, 2) # {}

\* ------------------------------------------------------------------------
\* CASCTraversals.h : visit_BFS_up, visit_BFS_down with a visitor that
\* always returns true
\* ------------------------------------------------------------------------
\* a traversal that follows every simplex up to the facets before it takes
\* the next simplex of the frontier
RECURSIVE BFS_Up_Node_DepthFirst(_, _, _)
BFS_Up_Node_DepthFirst(cx, frontier, lvl) ==
  IF frontier = {} THEN <<>>
  ELSE <<Min(frontier)>>
         \o (IF lvl = topLevel THEN <<>>
             ELSE BFS_Up_Node_DepthFirst(cx, UpOf(cx, {Min(frontier)}), lvl + 1))
         \o BFS_Up_Node_DepthFirst(cx, frontier \ {Min(frontier)}, lvl)

\* BFS_Up_Node<k>::apply: the calls of visit in order; the simplices of one
\* frontier (a NodeSet) are visited one after the other, here by address,
\* their covers are collected in the NodeSet next, and the facets end it
RECURSIVE BFS_Up_Node(_, _, _)
BFS_Up_Node(cx, frontier, lvl) ==
  IF lvl = topLevel THEN SortedSeq(frontier)
  ELSE SortedSeq(frontier) \o BFS_Up_Node(cx, UpOf(cx, frontier), lvl + 1)

\* BFS_Down_Node<k>::apply: the calls of visit in order; dimension 1 ends it
RECURSIVE BFS_Down_Node(_, _, _)
BFS_Down_Node(cx, frontier, lvl) ==
  IF lvl = 1 THEN SortedSeq(frontier)
  ELSE SortedSeq(frontier) \o BFS_Down_Node(cx, DownOf(cx, frontier), lvl - 1)

\* visit_BFS_up(v, F, s) and visit_BFS_down(v, F, s): the sequence of visits
visit_BFS_up(cx, s) == BFS_Up_Node(cx, {s}, cx[s].level)
visit_BFS_down(cx, s) == BFS_Down_Node(cx, {s}, cx[s].level)

\* no simplex occurs twice in a sequence of visits
VisitedOnce(v) == \A i, j \in 1 .. Len(v) : v[i] = v[j] => i = j

\* C16: with a visitor that always returns true, visit_BFS_up from s visits
\* every simplex of the star of s exactly once and no other, in nondecreasing
\* dimension; visit_BFS_down from s visits every non-empty face of s exactly
\* once and no other, in nonincreasing dimension, and never the root.
C16_VisitsOnceInOrder ==
  /\ \A s \in DOMAIN nodes :
       LET v == visit_BFS_up(nodes, s) IN
       /\ Range(v) = Star(nodes, s) /\ VisitedOnce(v)
       /\ \A i \in 1 .. Len(v) - 1 : nodes[v[i]].level <= nodes[v[i + 1]].level
  /\ \A s \in Simplices(nodes) :
       LET v == visit_BFS_down(nodes, s) IN
       /\ Range(v) = Faces(nodes, s) /\ VisitedOnce(v) /\ root \notin Range(v)
       /\ \A i \in 1 .. Len(v) - 1 : nodes[v[i]].level >= nodes[v[i + 1]].level
\* a complex with a triangle: from one of its vertices the traversal up meets
\* the triangle over two edges and visits it once, from the triangle the
\* traversal down meets each vertex over two edges and visits it once
C16_Witness ==
  /\ last.op = "insert" /\ Len(last.arg) = topLevel
  /\ \E s \in Level(nodes, 1), f \in Level(nodes, topLevel) :
       /\ f \in Range(visit_BFS_up(nodes, s))
       /\ Cardinality(UpOf(nodes, {s}) \cap DownOf(nodes, {f})) = 2
       /\ Len(visit_BFS_down(nodes, f)) = 7

\* ------------------------------------------------------------------------
\* CASCTraversals.h : kneighbors_up, kneighbors
\* ------------------------------------------------------------------------
\* the largest ring asked for
MaxRing == 3

\* an expansion that hands back the newly found simplices only
kneighbors_up_ring_LastRing(cx, ring, nbors, frontier) ==
  IF ring = 0 THEN nbors ELSE DownOf(cx, UpOf(cx, frontier)) \ nbors

\* kneighbors_up<Complex, level>(F, ring, nbors, begin, end): every face of
\* every cover of the frontier is inserted into nbors, the newly inserted
\* ones are the next frontier
RECURSIVE kneighbors_up_ring(_, _, _, _)
kneighbors_up_ring(cx, ring, nbors, frontier) ==
  IF ring = 0 THEN nbors
  ELSE CHOOSE res \in
         {kneighbors_up_ring(cx, ring - 1, nbors \cup next, next) :
            next \in {DownOf(cx, UpOf(cx, frontier)) \ nbors}} : TRUE

\* kneighbors_up(F, nid, ring, nbors) with nbors empty
kneighbors_up(cx, nid, ring) == kneighbors_up_ring(cx, ring, {nid}, {nid}) \ {nid}

\* nodes x and y of one dimension k have a common (k+1)-coface / (k-1)-face
CommonCoface(cx, x, y) ==
  \E c \in Level(cx, cx[x].level + 1) :
    DOMAIN cx[x].down \cup DOMAIN cx[y].down \subseteq DOMAIN cx[c].down
CommonFace(cx, x, y) ==
  \E f \in Level(cx, cx[x].level - 1) :
    DOMAIN cx[f].down \subseteq DOMAIN cx[x].down \cap DOMAIN cx[y].down

\* the nodes of the dimension of s reached from s in at most r steps over
\* common cofaces
RECURSIVE ReachUp(_, _, _)
ReachUp(cx, R, r) ==
  IF r = 0 THEN R
  ELSE ReachUp(cx, R \cup {y \in DOMAIN cx : \E x \in R :
                             cx[y].level = cx[x].level /\ CommonCoface(cx, x, y)},
               r - 1)

\* the regular triangulated disk of the kNeighbors test: the vertices of the
\* triangular lattice within DiskRadius steps of the centre, in axial
\* coordinates, with the edges and triangles between adjacent vertices; the
\* centre carries key 0 and a node is named by its set of keys
DiskRadius == 5
DiskSide == 2 * DiskRadius + 1
DiskPoints ==
  {p \in (-DiskRadius .. DiskRadius) \X (-DiskRadius .. DiskRadius) :
     p[1] + p[2] \in -DiskRadius .. DiskRadius}
DiskCode(p) == (p[1] + DiskRadius) * DiskSide + p[2] + DiskRadius
DiskKey(p) ==
  IF p = <<0, 0>> THEN 0
  ELSE IF DiskCode(p) = 0 THEN DiskCode(<<0, 0>>) ELSE DiskCode(p)
DiskAdjacent(p, q) ==
  <<q[1] - p[1], q[2] - p[2]>> \in
    {<<1, 0>>, <<0, 1>>, <<-1, 1>>, <<-1, 0>>, <<0, -1>>, <<1, -1>>}
DiskEdges ==
  {{DiskKey(pq[1]), DiskKey(pq[2])} :
     pq \in {pq \in DiskPoints \X DiskPoints : DiskAdjacent(pq[1], pq[2])}}
DiskKeys == {DiskKey(p) : p \in DiskPoints}
DiskTriangles ==
  UNION {{e \cup {c} : c \in {c \in DiskKeys : \A a \in e : {a, c} \in DiskEdges}} :
           e \in DiskEdges}
DiskSimplices == {{}} \cup {{a} : a \in DiskKeys} \cup DiskEdges \cup DiskTriangles
Disk ==
  [S \in DiskSimplices |->
     Node(Cardinality(S), [a \in S |-> S \ {a}],
          [b \in {b \in DiskKeys \ S : S \cup {b} \in DiskSimplices} |-> S \cup {b}],
          Indet)]
\* the sizes of kneighbors_up around the centre for the rings 1 .. 4
DiskCounts == [r \in 1 .. 4 |-> Cardinality(kneighbors_up(Disk, {0}, r))]

\* C17: kneighbors_up(F, s, r, nbors) returns exactly the simplices of the
\* dimension of s, other than s, reached from s in at most r steps over
\* common (k+1)-cofaces; r = 0 returns the empty set; on the regular
\* triangulated disk around vertex 0 the counts for r = 1..4 are 6, 18, 36, 60.
C17_KNeighborsUpExact ==
  /\ \A s \in Simplices(nodes) :
       nodes[s].level < topLevel =>
         /\ kneighbors_up(nodes, s, 0) = {}
         /\ \A r \in 0 .. MaxRing :
              kneighbors_up(nodes, s, r) = ReachUp(nodes, {s}, r) \ {s}
  /\ DiskCounts = <<6, 18, 36, 60>>
\* the path of edges 0-1, 1-2, 2-3: from vertex 0 the rings 1, 2, 3 hold
\* one, two, three vertices
C17_Witness ==
  /\ last.op = "insert"
  /\ \E s \in Level(nodes, 1) :
       /\ Cardinality(kneighbors_up(nodes, s, 1)) = 1
       /\ Cardinality(kneighbors_up(nodes, s, 2)) = 2
       /\ Cardinality(kneighbors_up(nodes, s, MaxRing)) = 3

\* kneighbors<Complex, level>(F, ring, nbors, begin, end): every cover of
\* every face of the frontier is inserted into nbors, the newly inserted ones
\* are the next frontier; the call for the remaining rings is kneighbors_up
kneighbors_ring(cx, ring, nbors, frontier) ==
  IF ring = 0 THEN nbors
  ELSE CHOOSE res \in
         {kneighbors_up_ring(cx, ring - 1, nbors \cup next, next) :
            next \in {UpOf(cx, DownOf(cx, frontier)) \ nbors}} : TRUE

\* kneighbors(F, nid, ring, nbors) with nbors empty
kneighbors(cx, nid, ring) == kneighbors_ring(cx, ring, {nid}, {nid}) \ {nid}

\* the nodes of the dimension of s reached from s in at most r steps over
\* common faces
RECURSIVE ReachDown(_, _, _)
ReachDown(cx, R, r) ==
  IF r = 0 THEN R
  ELSE ReachDown(cx, R \cup {y \in DOMAIN cx : \E x \in R :
                               cx[y].level = cx[x].level /\ CommonFace(cx, x, y)},
                 r - 1)

\* C18: kneighbors(F, s, r, nbors) returns, for every r >= 0, exactly the
\* simplices of the dimension of s, other than s, reached from s in at most r
\* steps over common (k-1)-faces.
C18_KNeighborsExact ==
  \A s \in Simplices(nodes) :
    nodes[s].level < topLevel =>
      \A r \in 0 .. MaxRing :
        kneighbors(nodes, s, r) = ReachDown(nodes, {s}, r) \ {s}

\* ------------------------------------------------------------------------
\* SimplicialComplex.h : onBoundary, nearBoundary
\* ------------------------------------------------------------------------
\* bdryLevel
bdryLevel == topLevel - 1

\* onBoundaryH whose base case asks for no facet at all
RECURSIVE onBoundaryH_NoFacet(_, _)
onBoundaryH_NoFacet(cx, s) ==
  IF cx[s].level = bdryLevel THEN Cardinality(DOMAIN cx[s].up) < 1
  ELSE IF cx[s].level = topLevel
    THEN \E a \in DOMAIN cx[s].down : onBoundaryH_NoFacet(cx, cx[s].down[a])
  ELSE \E b \in DOMAIN cx[s].up : onBoundaryH_NoFacet(cx, cx[s].up[b])

\* onBoundaryH<level>::apply(s): _up.size() < 2 at bdryLevel, any boundary
\* face for a facet, any boundary cover below bdryLevel
RECURSIVE onBoundaryH(_, _)
onBoundaryH(cx, s) ==
  IF cx[s].level = bdryLevel THEN Cardinality(DOMAIN cx[s].up) < 2
  ELSE IF cx[s].level = topLevel
    THEN \E a \in DOMAIN cx[s].down : onBoundaryH(cx, cx[s].down[a])
  ELSE \E b \in DOMAIN cx[s].up : onBoundaryH(cx, cx[s].up[b])

\* onBoundary(s)
onBoundary(cx, s) == onBoundaryH(cx, s)

\* the facets that have node f as a face
FacetsOn(cx, f) ==
  {n \in Level(cx, topLevel) : DOMAIN cx[f].down \subseteq DOMAIN cx[n].down}
\* the nodes of dimension D-1 with fewer than two incident facets
OpenFaces(cx) == {f \in Level(cx, bdryLevel) : Cardinality(FacetsOn(cx, f)) < 2}
\* the names of the facets that could be added on node f
NewFacetsOn(cx, f) ==
  {u \in Names(Keys) : /\ Len(u) = topLevel
                       /\ DOMAIN cx[f].down \subseteq Range(u)
                       /\ get_recurse(cx, root, u) = NULL}

\* C19: a (D-1)-simplex is onBoundary iff it has fewer than two incident
\* facets, a simplex of lower dimension iff one of its (D-1)-cofaces has, a
\* facet iff one of its (D-1)-faces has; inserting a second facet on a
\* (D-1)-face that had one turns its onBoundary from true to false, removing
\* one of its two facets turns it back to true.
C19_OnBoundaryExact ==
  /\ \A s \in DOMAIN nodes :
       onBoundary(nodes, s) <=>
         IF nodes[s].level = topLevel
           THEN \E f \in OpenFaces(nodes) :
                  DOMAIN nodes[f].down \subseteq DOMAIN nodes[s].down
           ELSE \E f \in OpenFaces(nodes) :
                  DOMAIN nodes[s].down \subseteq DOMAIN nodes[f].down
  /\ \A f \in Level(nodes, bdryLevel) :
       /\ Cardinality(FacetsOn(nodes, f)) = 1 =>
            /\ onBoundary(nodes, f)
            /\ \A u \in NewFacetsOn(nodes, f) :
                 ~onBoundary(InsertOp(nodes, head, u).cx, f)
       /\ Cardinality(FacetsOn(nodes, f)) = 2 =>
            /\ ~onBoundary(nodes, f)
            /\ \A t \in FacetsOn(nodes, f) :
                 onBoundary(RemoveOp(nodes, head, t).cx, f)
\* a second facet has just been inserted on an edge that had one: the edge
\* is off the boundary, other edges of the two facets are on it
C19_Witness ==
  /\ last.op = "insert" /\ Len(last.arg) = topLevel /\ last.created > 0
  /\ \E f \in Level(nodes, bdryLevel) :
       /\ last.ret \in FacetsOn(nodes, f)
       /\ Cardinality(FacetsOn(nodes, f)) = 2
       /\ ~onBoundary(nodes, f)
       /\ onBoundary(nodes, last.ret)
       /\ \E v \in Level(nodes, 1) : onBoundary(nodes, v)

\* get_down_recurse<level, n>::apply(s, root): follow the keys of s down
RECURSIVE get_down_recurse(_, _, _)
get_down_recurse(cx, s, nd) ==
  IF s = <<>> THEN nd
  ELSE IF nd = NULL THEN NULL
  ELSE IF s[1] \in DOMAIN cx[nd].down
    THEN get_down_recurse(cx, Tail(s), cx[nd].down[s[1]])
  ELSE NULL

\* the name without its i-th key (the array down of nearBoundaryH)
DropKey(name, i) == SubSeq(name, 1, i - 1) \o SubSeq(name, i + 1, Len(name))

\* nearBoundaryH that tests the first vertex only
nearBoundaryH_FirstVertex(cx, s) ==
  IF cx[s].level = 1 THEN onBoundaryH(cx, s)
  ELSE onBoundaryH(cx, get_down_recurse(cx, DropKey(get_name(cx, s), 1), s))

\* nearBoundaryH<level>::apply(s): for every key of the name, walk down the
\* other keys to that vertex and ask onBoundaryH<1> of it
nearBoundaryH(cx, s) ==
  IF cx[s].level = 1 THEN onBoundaryH(cx, s)
  ELSE \E i \in 1 .. cx[s].level :
         onBoundaryH(cx, get_down_recurse(cx, DropKey(get_name(cx, s), i), s))

\* nearBoundary(s)
nearBoundary(cx, s) == nearBoundaryH(cx, s)

\* C20: for every simplex s of dimension >= 1, nearBoundary(s) is true iff
\* some non-empty subsimplex of s, s included, is onBoundary: testing the
\* vertices of s is enough.
C20_NearBoundaryExact ==
  \A s \in Simplices(nodes) :
    /\ \A i \in 1 .. nodes[s].level :
         get_down_recurse(nodes, DropKey(get_name(nodes, s), i), s)
           \in Level(nodes, 1) \cap Faces(nodes, s)
    /\ nearBoundary(nodes, s) <=> \E f \in Faces(nodes, s) : onBoundary(nodes, f)
\* a complex with two triangles on one edge and a third edge apart: the
\* shared edge is off the boundary and near it, a triangle is near it, and
\* some simplex is near the boundary over its second or third vertex only
C20_Witness ==
  /\ last.op = "insert"
  /\ \E f \in Level(nodes, bdryLevel) : ~onBoundary(nodes, f) /\ nearBoundary(nodes, f)
  /\ \E t \in Level(nodes, topLevel) : nearBoundary(nodes, t)
  /\ \E s \in Simplices(nodes) \ Level(nodes, 1) :
       /\ nearBoundary(nodes, s)
       /\ ~onBoundary(nodes, get_down_recurse(nodes, DropKey(get_name(nodes, s), 1), s))

\* ------------------------------------------------------------------------
\* Orientable.h : init_orientation, clear_orientation, check_orientation
\* ------------------------------------------------------------------------
\* keys 0 .. MaxOrientKey-1 are the ones used when the orientation is computed
MaxOrientKey == 5
\* at most MaxFacets facets are inserted before the orientation is computed
MaxFacets == 5
\* keys 0 .. MaxBareKey-1 are the ones of the simplices of dimension D-1 that
\* are inserted on their own
MaxBareKey == 2

\* an edge orientation that flips the sign for every key of the name,
\* whether it is below the coboundary key or not
edge_orientation_AllKeys(name, a) == IF Len(name) % 2 = 0 THEN 1 ELSE -1

\* init_orientation_helper<k>::f: the loop over get_name(curr) for the
\* coboundary key a, flipping the sign for every key below a until the first
\* key that is not
RECURSIVE edge_orientation(_, _)
edge_orientation(name, a) ==
  IF name = <<>> THEN 1
  ELSE IF a > name[1] THEN -1 * edge_orientation(Tail(name), a)
  ELSE 1

\* the concatenation of a sequence of sequences
RECURSIVE Flatten(_)
Flatten(ss) == IF ss = <<>> THEN <<>> ELSE Head(ss) \o Flatten(Tail(ss))

\* neighbors_up(F, nid, back_inserter): for every coboundary key a in key
\* order, the faces of nid.up(a) other than nid, in the key order of its name
neighbors_up(cx, nid) ==
  LET cov == SortedSeq(DOMAIN cx[nid].up)
      faces(id) == LET nm == get_name(cx, id)
                   IN [i \in 1 .. Len(nm) |-> cx[id].down[nm[i]]]
  IN Flatten([i \in 1 .. Len(cov) |->
                SelectSeq(faces(cx[nid].up[cov[i]]), LAMBDA n : n # nid)])

\* the locals of check_orientation: visited, the orientation of every facet,
\* connected_components, orientable, psuedo_manifold
OrientState(vis, ori, cc, ok, pm) ==
  [visited |-> vis, orientation |-> ori, connected_components |-> cc,
   orientable |-> ok, psuedo_manifold |-> pm]

\* check_orientation, the case w.size() == 2 for curr: the two facets get an
\* orientation when they have none, and are compared when both have one
orient_pair(cx, curr, st) ==
  CHOOSE res \in
    {IF o0 = 0
       THEN IF o1 = 0
              THEN [st EXCEPT !.orientation[n0] = -1,
                              !.orientation[n1] = -1 * e1 * e0 * (-1)]
              ELSE [st EXCEPT !.orientation[n0] = -1 * e0 * e1 * o1]
       ELSE IF o1 = 0
              THEN [st EXCEPT !.orientation[n1] = -1 * e1 * e0 * o0]
              ELSE IF e0 * o0 + e1 * o1 # 0
                     THEN [st EXCEPT !.orientable = FALSE]
                     ELSE st :
       e0 \in {edge_orientation(get_name(cx, curr), SortedSeq(DOMAIN cx[curr].up)[1])},
       e1 \in {edge_orientation(get_name(cx, curr), SortedSeq(DOMAIN cx[curr].up)[2])},
       n0 \in {cx[curr].up[SortedSeq(DOMAIN cx[curr].up)[1]]},
       n1 \in {cx[curr].up[SortedSeq(DOMAIN cx[curr].up)[2]]},
       o0 \in {st.orientation[cx[curr].up[SortedSeq(DOMAIN cx[curr].up)[1]]]},
       o1 \in {st.orientation[cx[curr].up[SortedSeq(DOMAIN cx[curr].up)[2]]]}} : TRUE

\* the body of the while loop for an unvisited curr, the cases by w.size()
orient_visit(cx, curr, st) ==
  CHOOSE res \in
    {IF sz = 1 THEN st1
     ELSE IF sz = 2 THEN orient_pair(cx, curr, st1)
     ELSE [st1 EXCEPT !.psuedo_manifold = FALSE] :
       sz \in {Cardinality(DOMAIN cx[curr].up)},
       st1 \in {[st EXCEPT !.visited = @ \cup {curr}]}} : TRUE

\* the while loop over the deque frontier: front(), the visit when it was not
\* visited (neighbors_up is pushed to the back when w.size() == 2), pop_front()
RECURSIVE orient_while(_, _, _)
orient_while(cx, frontier, st) ==
  IF frontier = <<>> THEN st
  ELSE IF Head(frontier) \in st.visited THEN orient_while(cx, Tail(frontier), st)
  ELSE CHOOSE res \in
         {orient_while(cx, fr, st1) :
            fr \in {Tail(frontier) \o
                      (IF Cardinality(DOMAIN cx[Head(frontier)].up) = 2
                         THEN neighbors_up(cx, Head(frontier)) ELSE <<>>)},
            st1 \in {orient_visit(cx, Head(frontier), st)}} : TRUE

\* one pass of the for loop of check_orientation over get_level_id<k>() that
\* meets the unvisited simplex outer
orient_outer(cx, outer, st) ==
  orient_while(cx, <<outer>>,
               [st EXCEPT !.connected_components = @ + 1])

OrientKeys == 0 .. MaxOrientKey - 1
\* the names of dimension D over OrientKeys and of dimension D-1 over the
\* first MaxBareKey keys
OrientNames ==
  {s \in Names(OrientKeys) :
     Len(s) = topLevel \/ (Len(s) = topLevel - 1 /\ Range(s) \subseteq 0 .. MaxBareKey - 1)}

\* insert<n>(s) between two computations of the orientation
OrientInsert(s) ==
  /\ last.op # "check_orientation"
  /\ Len(s) = topLevel => size(nodes, topLevel) < MaxFacets
  /\ Insert(s)

\* compute_orientation up to the for loop of check_orientation:
\* init_orientation sets the orientation of every edge (edge_orientation),
\* clear_orientation zeroes the facets, the locals are initialised
ComputeOrientation ==
  /\ ~exited
  /\ last.op # "check_orientation"
  /\ last' = Call("check_orientation", <<>>,
                  OrientState({}, [f \in Level(nodes, topLevel) |-> 0], 0, TRUE, TRUE),
                  <<>>, 0, -1)
  /\ UNCHANGED <<nodes, head, exited>>

\* the next pass of the for loop that finds its simplex unvisited; the
\* levels are walked in the order the nodes were created, which the complex
\* does not otherwise show, so outer is any unvisited simplex
CheckOrientationOuter(outer) ==
  /\ last.op = "check_orientation"
  /\ outer \in Level(nodes, topLevel - 1) \ last.data.visited
  /\ \E st \in {orient_outer(nodes, outer, last.data)} :
       last' = [last EXCEPT !.data = st]
  /\ UNCHANGED <<nodes, head, exited>>

\* the end of the for loop: return std::make_tuple(connected_components,
\* orientable, psuedo_manifold)
CheckOrientationReturn ==
  /\ last.op = "check_orientation"
  /\ Level(nodes, topLevel - 1) \subseteq last.data.visited
  /\ last' = [last EXCEPT !.op = "compute_orientation",
                          !.ret = <<last.data.connected_components,
                                    last.data.orientable,
                                    last.data.psuedo_manifold>>]
  /\ UNCHANGED <<nodes, head, exited>>

NextOrient ==
  \/ \E s \in OrientNames : OrientInsert(s)
  \/ ComputeOrientation
  \/ \E outer \in DOMAIN nodes : CheckOrientationOuter(outer)
  \/ CheckOrientationReturn

SpecOrient == Init /\ [][NextOrient]_vars

\* the simplices of dimension D-1 all have one or two incident facets
OneOrTwoFacets(cx) ==
  \A e \in Level(cx, topLevel - 1) : Cardinality(DOMAIN cx[e].up) \in {1, 2}
\* (-1) to the number of keys of the name of e that are smaller than a
EdgeSign(cx, e, a) ==
  IF Cardinality({b \in DOMAIN cx[e].down : b < a}) % 2 = 0 THEN 1 ELSE -1
\* the signs sgn of the facets cancel across every face shared by two facets
ConsistentSigns(cx, sgn) ==
  \A e \in Level(cx, topLevel - 1) :
    \A a, b \in DOMAIN cx[e].up :
      a # b => EdgeSign(cx, e, a) * sgn[cx[e].up[a]]
                 + EdgeSign(cx, e, b) * sgn[cx[e].up[b]] = 0
Orientable(cx) ==
  \E sgn \in [Level(cx, topLevel) -> {-1, 1}] : ConsistentSigns(cx, sgn)

\* C21: when every (D-1)-simplex has one or two incident facets, the
\* orientable flag compute_orientation returns is true iff the facets can be
\* given signs +1/-1 that cancel, weighted by the edge orientations, across
\* every (D-1)-simplex shared by two facets; this for every order in which the
\* (D-1)-simplices are met.
C21_OrientableFlag ==
  (last.op = "compute_orientation" /\ OneOrTwoFacets(nodes))
    => (last.ret[2] <=> Orientable(nodes))
\* a strip of five triangles closed with a twist was found non-orientable,
\* the loop having started from some of its boundary edges first
C21_Witness ==
  /\ last.op = "compute_orientation" /\ OneOrTwoFacets(nodes)
  /\ size(nodes, topLevel) = 5
  /\ last.ret[2] = FALSE /\ last.ret[1] > 1
  /\ \A f \in Level(nodes, topLevel) : last.data.orientation[f] # 0

\* two facets share a (D-1)-face
FacetAdjacent(cx, f, g) ==
  f # g /\ MapValues(cx[f].down) \cap MapValues(cx[g].down) # {}
\* the facets reached from the facets S through shared (D-1)-faces
RECURSIVE FacetReach(_, _)
FacetReach(cx, S) ==
  LET T == S \cup {g \in Level(cx, topLevel) : \E f \in S : FacetAdjacent(cx, f, g)}
  IN IF T = S THEN S ELSE FacetReach(cx, T)
\* the number of connected components of the facets in rest
RECURSIVE CountComponents(_, _)
CountComponents(cx, rest) ==
  IF rest = {} THEN 0
  ELSE 1 + CountComponents(cx, rest \ FacetReach(cx, {Min(rest)}))
FacetComponents(cx) == CountComponents(cx, Level(cx, topLevel))

\* C22: the first element of the triple compute_orientation returns is the
\* number of connected components of the facets, two facets being adjacent
\* when they share a (D-1)-face; it is 1 for a single facet and for every
\* connected pseudo-manifold, with or without boundary.
C22_ComponentsCounted ==
  last.op = "compute_orientation" => last.ret[1] = FacetComponents(nodes)

\* C23: the pseudo_manifold flag compute_orientation returns is true iff
\* every (D-1)-simplex is a face of at most two facets: zero or one incident
\* facet leaves the flag set, three or more clear it.
C23_PseudoManifoldFlag ==
  last.op = "compute_orientation" =>
    (last.ret[3] <=>
       \A e \in Level(nodes, topLevel - 1) : Cardinality(DOMAIN nodes[e].up) <= 2)

\* ------------------------------------------------------------------------
\* decimate.h : the names after decimate, the SimplexMap, the two phases
\* ------------------------------------------------------------------------
\* the names of the simplices of a complex, as key sets
KeySets(cx) == {DOMAIN cx[n].down : n \in DOMAIN cx \ {root}}
\* the names decimation of the simplex with keys S is to leave: the names
\* disjoint from S, and np with what is left of each name that meets S
DecimatedNames(old, S, np) ==
  {n \in old : n \cap S = {}} \cup {{np} \cup (n \ S) : n \in {m \in old : m \cap S # {}}}
\* a family of key sets holds every non-empty subset of its members
FaceClosed(fam) == \A n \in fam : \A m \in SUBSET n : m # {} => m \in fam

\* C24: after decimate(F, s, callback) of a simplex s of dimension >= 1, with
\* v* the key allocated for the new vertex, the names are exactly the old
\* names disjoint from name(s) and {v*} with the rest of every old name that
\* meets name(s); no simplex contains a vertex of s, and the names are closed
\* under taking faces.
C24_DecimateNames ==
  head # NullPtr =>
    \A p \in Simplices(nodes) :
      \A strayB, strayO \in StrayVals :
        strayB # strayO =>
          \A r \in {DecimateOp(nodes, head, p, 0, strayB, strayO)} :
            /\ KeySets(r.cx) = DecimatedNames(KeySets(nodes), DOMAIN nodes[p].down, r.np)
            /\ \A n \in KeySets(r.cx) : n \cap DOMAIN nodes[p].down = {}
            /\ FaceClosed(KeySets(r.cx))

\* the simplices that share a vertex with the simplex of keys S
Neighbourhood(cx, S) == {n \in DOMAIN cx \ {root} : DOMAIN cx[n].down \cap S # {}}
\* the name a simplex of the neighbourhood is rewritten to
Rewritten(cx, n, S, np) == {np} \cup (DOMAIN cx[n].down \ S)

\* C25: the SimplexMap built by MainVisitor, InnerVisitor and GrabVisitor
\* partitions the neighbourhood N of s (the simplices sharing a vertex with
\* s): every simplex of N lies in exactly one merged set, the one keyed by its
\* rewritten name; no simplex outside N lies in a set; and there is one entry,
\* hence one call of the user callback, per distinct new name.
C25_MapPartitionsNeighbourhood ==
  head # NullPtr =>
    \A p \in Simplices(nodes) :
      \A strayB, strayO \in StrayVals :
        strayB # strayO =>
          \A r \in {DecimateOp(nodes, head, p, 0, strayB, strayO)},
             pre \in {InsertOp(nodes, remove_scalar(head, pop_key(head)),
                               <<pop_key(head)>>).cx} :
            \A S \in {DOMAIN nodes[p].down} :
              /\ r.nbhd = Neighbourhood(pre, S)
              /\ \A n \in r.nbhd :
                   \A nm \in DOMAIN r.map :
                     n \in r.map[nm] <=> Range(nm) = Rewritten(pre, n, S, r.np)
              /\ \A n \in r.nbhd : \E nm \in DOMAIN r.map : n \in r.map[nm]
              /\ \A nm \in DOMAIN r.map : r.map[nm] \subseteq r.nbhd
              /\ \A nm, nm2 \in DOMAIN r.map : Range(nm) = Range(nm2) => nm = nm2
              /\ Cardinality(DOMAIN r.map)
                   = Cardinality({Rewritten(pre, n, S, r.np) : n \in r.nbhd})

\* ------------------------------------------------------------------------
\* CASCTraversals.h : visit_BFS_up, visit_BFS_down with a visitor that
\* returns false for the simplices in no
\* ------------------------------------------------------------------------
\* at most MaxRefused simplices are refused by the visitor of one traversal
MaxRefused == 2

\* a traversal in which one false return keeps the whole frontier from
\* being expanded
RECURSIVE BFS_Up_Node_Visitor_StopFrontier(_, _, _, _)
BFS_Up_Node_Visitor_StopFrontier(cx, frontier, lvl, no) ==
  IF lvl = topLevel THEN SortedSeq(frontier)
  ELSE SortedSeq(frontier)
         \o BFS_Up_Node_Visitor_StopFrontier(
              cx, IF frontier \cap no = {} THEN UpOf(cx, frontier) ELSE {}, lvl + 1, no)

\* BFS_Up_Node<k>::apply: every simplex of the frontier is visited, the cover
\* of those for which visit returned true goes into next; at topLevel the
\* return value of visit is dropped
RECURSIVE BFS_Up_Node_Visitor(_, _, _, _)
BFS_Up_Node_Visitor(cx, frontier, lvl, no) ==
  IF lvl = topLevel THEN SortedSeq(frontier)
  ELSE SortedSeq(frontier)
         \o BFS_Up_Node_Visitor(cx, UpOf(cx, frontier \ no), lvl + 1, no)

\* BFS_Down_Node<k>::apply: likewise with the boundary; at dimension 1 the
\* return value of visit is dropped
RECURSIVE BFS_Down_Node_Visitor(_, _, _, _)
BFS_Down_Node_Visitor(cx, frontier, lvl, no) ==
  IF lvl = 1 THEN SortedSeq(frontier)
  ELSE SortedSeq(frontier)
         \o BFS_Down_Node_Visitor(cx, DownOf(cx, frontier \ no), lvl - 1, no)

\* the sets of simplices of R a visitor may refuse
Refusals(R) == {no \in SUBSET R : Cardinality(no) <= MaxRefused}

\* C26: in visit_BFS_up (and visit_BFS_down) a visitor that returns false for
\* x only keeps x from being expanded: the start is visited, a simplex of a
\* next dimension is visited iff one of its visited faces (cofaces) returned
\* true, nothing else is visited, and what the visitor returns for facets
\* (vertices) changes nothing.
C26_FalseStopsOnlyExpansion ==
  \A s \in Simplices(nodes) :
    /\ \A no \in Refusals(Range(visit_BFS_up(nodes, s))) :
         \A V \in {Range(BFS_Up_Node_Visitor(nodes, {s}, nodes[s].level, no))} :
           /\ s \in V
           /\ \A y \in Simplices(nodes) \ {s} :
                y \in V <=> /\ nodes[y].level > nodes[s].level
                            /\ \E x \in DownOf(nodes, {y}) : x \in V /\ x \notin no
           /\ BFS_Up_Node_Visitor(nodes, {s}, nodes[s].level, no \ Level(nodes, topLevel))
                = BFS_Up_Node_Visitor(nodes, {s}, nodes[s].level, no)
    /\ \A no \in Refusals(Range(visit_BFS_down(nodes, s))) :
         \A V \in {Range(BFS_Down_Node_Visitor(nodes, {s}, nodes[s].level, no))} :
           /\ s \in V
           /\ \A y \in Simplices(nodes) \ {s} :
                y \in V <=> /\ nodes[y].level < nodes[s].level
                            /\ \E x \in UpOf(nodes, {y}) : x \in V /\ x \notin no
           /\ BFS_Down_Node_Visitor(nodes, {s}, nodes[s].level, no \ Level(nodes, 1))
                = BFS_Down_Node_Visitor(nodes, {s}, nodes[s].level, no)
\* from a vertex the visitor refused two of three edges: the third edge was
\* visited and expanded, one triangle on a refused edge was reached through
\* it and the triangle on the two refused edges was not
C26_Witness ==
  \E s \in Level(nodes, 1) :
    \E no \in Refusals(UpOf(nodes, {s})) :
      \A V \in {Range(BFS_Up_Node_Visitor(nodes, {s}, 1, no))} :
        /\ Cardinality(no) = 2 /\ no \subseteq V
        /\ \E y \in V \cap Level(nodes, topLevel) : DownOf(nodes, {y}) \cap no # {}
        /\ \E y \in Level(nodes, topLevel) \ V : DownOf(nodes, {y}) \cap V = no

\* a first half that takes the key from the tracker and creates no vertex
decimateFirstHalf_AllocateOnly(cx, ut, s, strayB, strayO) ==
  CHOOSE res \in
    UNION {UNION {
      {[cx |-> cx, ut |-> remove_scalar(ut, np), np |-> np, nbhd |-> nbhd,
        map |-> m.map] :
         m \in {MainVisitor(cx, {s}, cx[s].level, np, strayB, strayO,
                            [nbhd |-> nbhd, map |-> EmptyMap])}} :
         nbhd \in {GetCompleteNeighborhood(cx, {s}, cx[s].level)}} :
         np \in {pop_key(ut)}}
    : TRUE

\* decimateFirstHalf(F, s, simplexMap) with a free key at hand: add_vertex,
\* the neighbourhood, the SimplexMap; this is also the state in which
\* decimate runs the user callback
decimateFirstHalf(cx, ut, s, strayB, strayO) ==
  CHOOSE res \in
    UNION {UNION {UNION {
      {[cx |-> a.cx, ut |-> a.ut, np |-> np, nbhd |-> nbhd, map |-> m.map] :
         m \in {MainVisitor(a.cx, {s}, a.cx[s].level, np, strayB, strayO,
                            [nbhd |-> nbhd, map |-> EmptyMap])}} :
         nbhd \in {GetCompleteNeighborhood(a.cx, {s}, a.cx[s].level)}} :
         a \in {InsertOp(cx, remove_scalar(ut, np), <<np>>)}} :
         np \in {pop_key(ut)}}
    : TRUE

\* C27 as stated: decimate only allocates the key v* and inserts the vertex
\* {v*} at the insertion step: after the neighbourhood and the SimplexMap are
\* computed (where the callbacks run, and where decimateFirstHalf returns) the
\* complex holds no simplex named {v*} and its simplices are unchanged.
C27_VertexNotYetInserted ==
  head # NullPtr =>
    \A p \in Simplices(nodes) :
      \A strayB, strayO \in StrayVals :
        strayB # strayO =>
          \A r \in {decimateFirstHalf(nodes, head, p, strayB, strayO)} :
            /\ {r.np} \notin KeySets(r.cx)
            /\ KeySets(r.cx) = KeySets(nodes)

\* C27 amended: decimate and decimateFirstHalf insert the vertex {v*} with
\* add_vertex before the neighbourhood is computed: where the callbacks run,
\* and where decimateFirstHalf returns, the simplices are the old ones and
\* {v*}, every old simplex is as it was, v* has left the free keys, and the
\* new vertex is in no merged set.
C27_VertexInsertedFirst ==
  head # NullPtr =>
    \A p \in Simplices(nodes) :
      \A strayB, strayO \in StrayVals :
        strayB # strayO =>
          \A r \in {decimateFirstHalf(nodes, head, p, strayB, strayO)} :
            /\ r.np \notin VertexKeys(nodes)
            /\ KeySets(r.cx) = KeySets(nodes) \cup {{r.np}}
            /\ \A n \in DOMAIN nodes \ {root} : r.cx[n] = nodes[n]
            /\ FreeSet(r.ut) = FreeSet(head) \ {r.np}
            /\ r.np \notin FreeSet(r.ut)
            /\ get_recurse(r.cx, root, <<r.np>>) \notin r.nbhd
            /\ \A nm \in DOMAIN r.map : get_recurse(r.cx, root, <<r.np>>) \notin r.map[nm]
\* a decimate has returned and its new vertex carries edges; a first half on
\* one of these edges would add a further vertex and gather a neighbourhood
\* of at least three simplices
C27_Witness ==
  /\ last.op = "decimate" /\ ~exited /\ head # NullPtr
  /\ \E p \in Level(nodes, 2) :
       /\ last.ret \in DOMAIN nodes[p].down
       /\ \A r \in {decimateFirstHalf(nodes, head, p, 0, 1)} :
            /\ Cardinality(r.nbhd) >= 3
            /\ size(r.cx, 1) = size(nodes, 1) + 1

\* C28: every new name decimation produces (the keys of the SimplexMap, which
\* are the names handed to the user callback and to insert) is a strictly
\* ascending tuple of distinct keys, whatever the value of v*.
C28_NewNamesAscending ==
  head # NullPtr =>
    \A p \in Simplices(nodes) :
      \A strayB, strayO \in StrayVals :
        strayB # strayO =>
          \A r \in {decimateFirstHalf(nodes, head, p, strayB, strayO)} :
            \A nm \in DOMAIN r.map : Ascending(nm)

\* the state perform_removal(F, doomed) of decimate starts from and the one
\* it leaves, for the neighbourhood of the first half r
RemovalOf(r) ==
  perform_removal([cx |-> r.cx, ut |-> r.ut, fault |-> FALSE,
                   lvl |-> [n \in r.nbhd |-> r.cx[n].level]], r.nbhd)

\* C29: in the removal phase of decimate every F.remove(curr) meets a live
\* node and removes exactly one simplex: no handle of the doomed set was swept
\* by an earlier removal, the calls together remove as many simplices as
\* there are calls, and what is left is the complex without the doomed set.
C29_RemovalsHitLiveNodes ==
  /\ (last.op = "decimate" /\ last.ret # -1) => ~exited
  /\ head # NullPtr =>
       \A p \in Simplices(nodes) :
         \A strayB, strayO \in StrayVals :
           strayB # strayO =>
             \A r \in {decimateFirstHalf(nodes, head, p, strayB, strayO)} :
               \A rm \in {RemovalOf(r)} :
                 /\ ~rm.fault
                 /\ Cardinality(DOMAIN r.cx) - Cardinality(DOMAIN rm.cx)
                      = Cardinality(r.nbhd)
                 /\ DOMAIN rm.cx = DOMAIN r.cx \ r.nbhd
                 /\ \A n \in r.nbhd : UpOf(r.cx, {n}) \subseteq r.nbhd
\* a decimate of an edge of a triangle has returned: six simplices of three
\* dimensions were removed one by one and the vertices of the edge are gone
C29_Witness ==
  /\ last.op = "decimate" /\ ~exited /\ Len(last.arg) = 2
  /\ last.after >= 6
  /\ \A i \in 1 .. 2 : last.arg[i] \notin VertexKeys(nodes)
  /\ last.ret \in VertexKeys(nodes)

\* ------------------------------------------------------------------------
\* SimplicialComplex.h : remove(name) of a name that is not in the complex
\* ------------------------------------------------------------------------
\* remove<k>(s) of an absent simplex: get_recurse returns nullptr and
\* remove_recurse<k, 0>::apply reads (*i)->_up, or remove_node reads
\* p->_down, through that null pointer. Either the read traps and the
\* process ends (trap), or the words read make up empty maps, nothing is
\* unlinked, count is incremented and 1 is returned
RemoveAbsent(s, trap) ==
  /\ ~exited
  /\ get_recurse(nodes, root, s) = NULL
  /\ exited' = trap
  /\ last' = Call("remove_absent", s, Indet, IF trap THEN -1 ELSE 1, 0, -1)
  /\ UNCHANGED <<nodes, head>>

NextRemove ==
  \/ \E s \in Names(DataKeys) : Insert(s)
  \/ \E s \in Names(DataKeys) : Remove(s)
  \/ \E s \in Names(DataKeys), trap \in BOOLEAN : RemoveAbsent(s, trap)

SpecRemove == Init /\ [][NextRemove]_vars

\* C30: remove(name) of a name that is not in the complex is a null result
\* and no failure: the call returns 0, as exists(name) returns false and
\* get_simplex_up(name) an empty handle, and the program goes on.
C30_RemoveAbsentReturnsZero ==
  last.op = "remove_absent" =>
    /\ get_recurse(nodes, root, last.arg) = NULL
    /\ ~exited
    /\ last.ret = 0

====
